---- MODULE Spec2Model ----
(***************************************************************************)
(* Model of the open-notebook embedding pipeline and context builder.      *)
(*                                                                         *)
(*   commands/embedding_commands.py   embed_chunk, vectorize_source        *)
(*   open_notebook/domain/notebook.py Source.vectorize, Source.delete      *)
(*   open_notebook/domain/base.py     ObjectModel.get / save               *)
(*   open_notebook/database/repository.py  repo_query                      *)
(*   open_notebook/utils/context_builder.py  ContextBuilder                *)
(*   api/routers/sources.py           retry_source_processing              *)
(*                                                                         *)
(* Optional[T] values are modelled as sequences of length 0 (None) or 1.   *)
(***************************************************************************)
EXTENDS Integers, Sequences, FiniteSets, TLC

VARIABLES
    embedding_model,    \* model_manager.get_embedding_model() is not None
    source,             \* table source: id -> [exists, full_text]
    source_embedding,   \* table source_embedding: set of rows
    vjobs,              \* vectorize_source jobs, in submission order
    cjobs,              \* embed_chunk jobs, in submission order
    lastCall,           \* the most recent Source.vectorize call and its outcome
    faultsLeft,         \* failures the environment may still inject
    editsLeft,          \* source edits / deletions the environment may still make
    note,               \* table note: id -> [exists, title, content]
    source_insight,     \* table source_insight: rows in the order a SELECT returns them
    notebook,           \* notebook id -> the sources and notes related to it
    items,              \* ContextBuilder.items
    ctxCall,            \* the most recent ContextBuilder call: op, args, items before, result
    note_embedding,     \* field embedding of table note: id -> [value, by]
    insight_embedding,  \* field embedding of table source_insight: id -> [value, by]
    rjobs,              \* rebuild_embeddings jobs, in submission order
    singleCall,         \* the most recent embed_single_item execution and its output
    splitCall,          \* the most recent split_text call and its result
    asset,              \* field asset.file_path of table source: id -> Optional path
    files,              \* the paths that exist on disk
    deleteCall,         \* the most recent Source.delete call and its outcome
    command,            \* field command of table source: id -> Optional process_source job
    pjobs,              \* process_source jobs, in submission order
    reference,          \* table reference: source id -> the notebooks it belongs to
    retryCall,          \* the most recent POST /sources/{id}/retry and its response
    lastBuild           \* what the most recent ContextBuilder.build call returned

vars == << embedding_model, source, source_embedding, vjobs, cjobs,
           lastCall, faultsLeft, editsLeft, note, source_insight, notebook,
           items, ctxCall, note_embedding, insight_embedding, rjobs, singleCall,
           splitCall, asset, files, deleteCall, command, pjobs, reference,
           retryCall, lastBuild >>

embedVars == << embedding_model, source, source_embedding, vjobs, cjobs,
                lastCall, faultsLeft, editsLeft >>

ctxVars == << note, source_insight, notebook, items, ctxCall, lastBuild >>

rebuildVars == << note_embedding, insight_embedding, rjobs, singleCall >>

splitVars == << splitCall >>

deleteVars == << asset, files, deleteCall >>

retryVars == << command, pjobs, reference, retryCall >>

----------------------------------------------------------------------------
(* Bounds of the model *)

MaxRuns == 2          \* vectorize_source jobs submitted in one behaviour
MaxFaults == 1        \* injected failures in one behaviour of Spec
MaxEdits == 1         \* source saves / deletions in one behaviour
MaxItems == 3         \* items a caller adds to one ContextBuilder

(* Program constants *)

MaxAttempts == 15     \* retry={"max_attempts": 15}

----------------------------------------------------------------------------
(* Optional values *)

None == << >>
Some(x) == << x >>
IsNone(o) == o = << >>
Val(o) == o[1]

Range(s) == { s[i] : i \in 1..Len(s) }

----------------------------------------------------------------------------
(* Source texts.  A text is a sequence of pieces; "ws" is a piece of       *)
(* whitespace only, every other piece is a run of content that fills one   *)
(* chunk.  << >> is the empty string.                                      *)

TextA == << "a1", "a2" >>
TextB == << "b1" >>
TextBlank == << "ws" >>
TextEmpty == << >>

Texts == { TextA, TextB, TextBlank, TextEmpty }

SourceIds == { "source:1", "source:2" }

SourceRow(title, full_text) ==
    [ exists |-> TRUE, title |-> Some(title), full_text |-> full_text ]

NoRow == [ exists |-> FALSE, title |-> None, full_text |-> None ]

\* A check that lets the empty string through
NotNone(full_text) == ~IsNone(full_text)

\* Python truthiness of Optional[str]: None and "" are falsy
Truthy(full_text) == ~IsNone(full_text) /\ Val(full_text) # << >>

\* A split in the manner of str.split: the pieces between separators, empty
\* ones included, and one empty piece for an empty text
SplitKeepingEmpty(txt) ==
    IF txt = << >> THEN << "" >>
    ELSE [ i \in 1..Len(txt) |-> IF txt[i] = "ws" THEN "" ELSE txt[i] ]

\* split_text: the splitter strips whitespace and drops empty chunks; content
\* pieces come out in order, one chunk each
split_text(txt) == SelectSeq(txt, LAMBDA p : p # "ws")

----------------------------------------------------------------------------
(* The store *)

\* A DELETE that removes nothing
DeleteNothing(table, source_id) == table

\* DELETE source_embedding WHERE source = $source_id
DeleteWhereSource(table, source_id) == { row \in table : row.source # source_id }

\* select count() from source_embedding where source = $id
RowsOf(table, source_id) == { row \in table : row.source = source_id }

\* A CREATE that numbers the orders from 1
NewRowNextOrder(job, attempt, source_id, order, content) ==
    [ id |-> << job, attempt >>, source |-> source_id, order |-> order + 1,
      content |-> content, embedding |-> "vec" ]

\* CREATE source_embedding CONTENT {source, order, content, embedding}
\* The store gives every created row a fresh id; the id is modelled as the
\* pair (job, attempt) of the embed_chunk attempt that issued the statement.
NewRow(job, attempt, source_id, order, content) ==
    [ id |-> << job, attempt >>, source |-> source_id, order |-> order,
      content |-> content, embedding |-> "vec" ]

----------------------------------------------------------------------------
(* repo_query: what connection.query gave back decides what is raised *)

DbResults == { "rows", "str_conflict", "str_other", "raises" }

repo_query_raises(dbres) ==
    IF dbres \in { "str_conflict", "str_other" } THEN "RuntimeError"   \* isinstance(result, str)
    ELSE IF dbres = "raises" THEN "Exception"                           \* re-raised as it is
    ELSE "none"

----------------------------------------------------------------------------
(* embed_chunk *)

\* What one attempt runs into.  "ok": embedded and created the row.
AttemptOutcomes ==
    { "ok", "no_model", "conn_error", "timeout", "embed_error",
      "db_conflict", "db_str_error", "db_exception" }

\* The outcomes the environment injects (everything but a clean run and a
\* missing model, which is configuration)
FaultOutcomes == AttemptOutcomes \ { "ok", "no_model" }

\* An attempt that goes on to the CREATE after a failed embedding call
AttemptRaisesAfterEmbedding(outcome) ==
    CASE outcome = "ok"           -> "none"
      [] outcome = "no_model"     -> "ValueError"
      [] outcome = "conn_error"   -> "ConnectionError"
      [] outcome = "timeout"      -> "TimeoutError"
      [] outcome = "embed_error"  -> "none"
      [] outcome = "db_conflict"  -> repo_query_raises("str_conflict")
      [] outcome = "db_str_error" -> repo_query_raises("str_other")
      [] outcome = "db_exception" -> repo_query_raises("raises")

\* The exception an attempt raises inside the try block
AttemptRaises(outcome) ==
    CASE outcome = "ok"           -> "none"
      [] outcome = "no_model"     -> "ValueError"
      [] outcome = "conn_error"   -> "ConnectionError"
      [] outcome = "timeout"      -> "TimeoutError"
      [] outcome = "embed_error"  -> "Exception"
      [] outcome = "db_conflict"  -> repo_query_raises("str_conflict")
      [] outcome = "db_str_error" -> repo_query_raises("str_other")
      [] outcome = "db_exception" -> repo_query_raises("raises")

\* Except clauses that re-raise whatever was raised
ReRaisesAll(exc) == exc # "none"

\* The except clauses of embed_chunk_command: re-raise or return a failure
ReRaises(exc) ==
    \/ exc = "RuntimeError"
    \/ exc \in { "ConnectionError", "TimeoutError" }

\* retry_on of the command's retry policy
retry_on == { "RuntimeError", "ConnectionError", "TimeoutError" }

\* A policy that allows one attempt too many
RetryOnceMore(exc, attemptsMade) ==
    /\ exc \in { "RuntimeError", "ConnectionError", "TimeoutError" }
    /\ attemptsMade <= 15

\* The substrate runs another attempt when the exception is in retry_on and
\* fewer than max_attempts attempts were made
ShouldRetry(exc, attemptsMade) == exc \in retry_on /\ attemptsMade < MaxAttempts

\* A submit loop that numbers the chunks from 1
NewChunkJobFromOne(source_id, idx, text, run) ==
    [ source_id |-> source_id, chunk_index |-> idx + 1, chunk_text |-> text, run |-> run,
      status |-> "queued", attempts |-> 0, last_error |-> "none",
      success |-> None, error_message |-> None ]

\* The embed_chunk job submit_command queues for chunk idx of a run
NewChunkJob(source_id, idx, text, run) ==
    [ source_id |-> source_id, chunk_index |-> idx, chunk_text |-> text, run |-> run,
      status |-> "queued", attempts |-> 0, last_error |-> "none",
      success |-> None, error_message |-> None ]

EmbedChunk(j, outcome) ==
    LET job == cjobs[j]
        exc == AttemptRaises(outcome)
        made == job.attempts + 1
    IN
    /\ job.status = "queued"
    /\ (outcome = "no_model") <=> ~embedding_model
    /\ outcome \in FaultOutcomes => faultsLeft > 0
    /\ faultsLeft' = IF outcome \in FaultOutcomes THEN faultsLeft - 1 ELSE faultsLeft
    /\ IF exc = "none"
       THEN /\ source_embedding' = source_embedding \cup
                   { NewRow(j, made, job.source_id, job.chunk_index, job.chunk_text) }
            /\ cjobs' = [cjobs EXCEPT ![j] =
                   [job EXCEPT !.status = "completed", !.attempts = made,
                               !.success = Some(TRUE)]]
       ELSE /\ UNCHANGED source_embedding
            /\ IF ReRaises(exc)
               THEN IF ShouldRetry(exc, made)
                    THEN cjobs' = [cjobs EXCEPT ![j] =
                            [job EXCEPT !.attempts = made, !.last_error = outcome]]
                    ELSE cjobs' = [cjobs EXCEPT ![j] =
                            [job EXCEPT !.status = "failed", !.attempts = made,
                                        !.last_error = outcome]]
               ELSE cjobs' = [cjobs EXCEPT ![j] =
                       [job EXCEPT !.status = "completed", !.attempts = made,
                                   !.last_error = outcome,
                                   !.success = Some(FALSE),
                                   !.error_message = Some(outcome)]]
    /\ UNCHANGED << embedding_model, source, vjobs, lastCall, editsLeft >>
    /\ UNCHANGED ctxVars
    /\ UNCHANGED rebuildVars
    /\ UNCHANGED splitVars
    /\ UNCHANGED deleteVars
    /\ UNCHANGED retryVars

----------------------------------------------------------------------------
(* vectorize_source *)

NewVectorizeJob(source_id) ==
    [ source_id |-> source_id, pc |-> "queued",
      full_text |-> None,          \* source.full_text as loaded by Source.get
      chunks |-> << >>, idx |-> 0, jobs_submitted |-> 0,
      deleted_count |-> None,      \* set by the DELETE step
      success |-> None, total_chunks |-> 0, error_message |-> None,
      before |-> { },              \* runs that had started when this one started
      quiet |-> FALSE ]            \* no earlier work on the source was pending then

JobsOf(r) == { j \in DOMAIN cjobs : cjobs[j].run = r }

Started(r) == vjobs[r].pc # "queued"

\* Run r is over and so is every embed_chunk job it dispatched
Settled(r) ==
    /\ vjobs[r].pc = "done"
    /\ \A j \in JobsOf(r) : cjobs[j].status # "queued"

\* A failure that leaves the command and puts the job back on the queue
FailureRequeued(run, msg) == [run EXCEPT !.pc = "queued"]

\* The except clause of vectorize_source_command: a structured failure
Failure(run, msg) ==
    [run EXCEPT !.pc = "done", !.success = Some(FALSE), !.total_chunks = 0,
                !.jobs_submitted = 0, !.error_message = Some(msg)]

\* A POST /commands/jobs for vectorize_source with any source id
ExecuteCommand(s) ==
    /\ Len(vjobs) < MaxRuns
    /\ vjobs' = Append(vjobs, NewVectorizeJob(s))
    /\ UNCHANGED << embedding_model, source, source_embedding, cjobs,
                    lastCall, faultsLeft, editsLeft >>
    /\ UNCHANGED ctxVars
    /\ UNCHANGED rebuildVars
    /\ UNCHANGED splitVars
    /\ UNCHANGED deleteVars
    /\ UNCHANGED retryVars

\* Source.vectorize on the Source object just loaded from row s
\* (submitted: submit_command returned a job id)
SourceVectorize(s, submitted) ==
    LET txt == source[s].full_text IN
    /\ source[s].exists
    /\ IF ~Truthy(txt)
       THEN \* raise ValueError, wrapped in DatabaseOperationError
            /\ submitted = FALSE
            /\ lastCall' = [ op |-> "Source.vectorize", source_id |-> s,
                             full_text |-> txt, raised |-> TRUE ]
            /\ UNCHANGED << vjobs, faultsLeft >>
       ELSE IF submitted
            THEN /\ Len(vjobs) < MaxRuns
                 /\ vjobs' = Append(vjobs, NewVectorizeJob(s))
                 /\ lastCall' = [ op |-> "Source.vectorize", source_id |-> s,
                                  full_text |-> txt, raised |-> FALSE ]
                 /\ UNCHANGED faultsLeft
            ELSE \* submit_command raised
                 /\ faultsLeft > 0
                 /\ faultsLeft' = faultsLeft - 1
                 /\ lastCall' = [ op |-> "Source.vectorize", source_id |-> s,
                                  full_text |-> txt, raised |-> TRUE ]
                 /\ UNCHANGED vjobs
    /\ UNCHANGED << embedding_model, source, source_embedding, cjobs, editsLeft >>
    /\ UNCHANGED ctxVars
    /\ UNCHANGED rebuildVars
    /\ UNCHANGED splitVars
    /\ UNCHANGED deleteVars
    /\ UNCHANGED retryVars

\* Step 1: source = await Source.get(source_id), then the two checks
\* (dbok = FALSE: the SELECT failed, Source.get raises NotFoundError)
VectorizeLoad(r, dbok) ==
    LET run == vjobs[r]
        row == source[run.source_id]
        earlier == { q \in DOMAIN vjobs : Started(q) }
        began == [run EXCEPT
                    !.before = earlier,
                    !.quiet = \A q \in earlier :
                                 vjobs[q].source_id = run.source_id => Settled(q)]
    IN
    /\ run.pc = "queued"
    /\ ~dbok => faultsLeft > 0
    /\ faultsLeft' = IF dbok THEN faultsLeft ELSE faultsLeft - 1
    /\ IF ~dbok
       THEN vjobs' = [vjobs EXCEPT ![r] = Failure(began, "load_error")]
       ELSE IF ~row.exists
       THEN vjobs' = [vjobs EXCEPT ![r] = Failure(began, "not_found")]
       ELSE IF ~Truthy(row.full_text)
       THEN vjobs' = [vjobs EXCEPT ![r] =
                        Failure([began EXCEPT !.full_text = row.full_text], "no_text")]
       ELSE vjobs' = [vjobs EXCEPT ![r] =
                        [began EXCEPT !.pc = "loaded", !.full_text = row.full_text]]
    /\ UNCHANGED << embedding_model, source, source_embedding, cjobs,
                    lastCall, editsLeft >>
    /\ UNCHANGED ctxVars
    /\ UNCHANGED rebuildVars
    /\ UNCHANGED splitVars
    /\ UNCHANGED deleteVars
    /\ UNCHANGED retryVars

\* Steps 2 and 3: DELETE the source's rows, then split the loaded text
\* (dbok = FALSE: the DELETE statement failed and removed nothing)
VectorizeDelete(r, dbok) ==
    LET run == vjobs[r]
        chunks == split_text(Val(run.full_text))
    IN
    /\ run.pc = "loaded"
    /\ ~dbok => faultsLeft > 0
    /\ faultsLeft' = IF dbok THEN faultsLeft ELSE faultsLeft - 1
    /\ IF ~dbok
       THEN /\ vjobs' = [vjobs EXCEPT ![r] = Failure(run, "delete_error")]
            /\ UNCHANGED source_embedding
       ELSE /\ source_embedding' = DeleteWhereSource(source_embedding, run.source_id)
            /\ LET deleted == [run EXCEPT !.deleted_count =
                        Some(Cardinality(RowsOf(source_embedding, run.source_id)))]
               IN IF Len(chunks) = 0
                  THEN vjobs' = [vjobs EXCEPT ![r] = Failure(deleted, "no_chunks")]
                  ELSE vjobs' = [vjobs EXCEPT ![r] =
                          [deleted EXCEPT !.pc = "dispatch", !.chunks = chunks,
                                          !.total_chunks = Len(chunks)]]
    /\ UNCHANGED << embedding_model, source, cjobs, lastCall, editsLeft >>
    /\ UNCHANGED ctxVars
    /\ UNCHANGED rebuildVars
    /\ UNCHANGED splitVars
    /\ UNCHANGED deleteVars
    /\ UNCHANGED retryVars

\* A submit loop without the inner try/except: the first failed submission
\* reaches the outer except clause and ends the run with a failure
SubmitOrAbort(r, ok) ==
    LET run == vjobs[r]
        idx == run.idx
        looped == [run EXCEPT !.idx = idx + 1,
                              !.jobs_submitted = IF ok THEN @ + 1 ELSE @]
    IN
    /\ run.pc = "dispatch"
    /\ idx < Len(run.chunks)
    /\ ~ok => faultsLeft > 0
    /\ faultsLeft' = IF ok THEN faultsLeft ELSE faultsLeft - 1
    /\ cjobs' = IF ok
                THEN Append(cjobs, NewChunkJob(run.source_id, idx, run.chunks[idx + 1], r))
                ELSE cjobs
    /\ vjobs' = [vjobs EXCEPT ![r] =
                    IF ~ok
                    THEN Failure(run, "submit_error")
                    ELSE IF idx + 1 = Len(run.chunks)
                    THEN [looped EXCEPT !.pc = "done", !.success = Some(TRUE)]
                    ELSE looped]
    /\ UNCHANGED << embedding_model, source, source_embedding, lastCall, editsLeft >>
    /\ UNCHANGED ctxVars
    /\ UNCHANGED rebuildVars
    /\ UNCHANGED splitVars
    /\ UNCHANGED deleteVars
    /\ UNCHANGED retryVars

\* Step 4: one pass of the submit loop (ok = FALSE: submit_command raised and
\* the chunk is skipped); the pass for the last chunk also returns the result
VectorizeSubmit(r, ok) ==
    LET run == vjobs[r]
        idx == run.idx                       \* enumerate(chunks) counts from 0
        looped == [run EXCEPT !.idx = idx + 1,
                              !.jobs_submitted = IF ok THEN @ + 1 ELSE @]
    IN
    /\ run.pc = "dispatch"
    /\ idx < Len(run.chunks)
    /\ ~ok => faultsLeft > 0
    /\ faultsLeft' = IF ok THEN faultsLeft ELSE faultsLeft - 1
    /\ cjobs' = IF ok
                THEN Append(cjobs, NewChunkJob(run.source_id, idx, run.chunks[idx + 1], r))
                ELSE cjobs
    /\ vjobs' = [vjobs EXCEPT ![r] =
                    IF idx + 1 = Len(run.chunks)
                    THEN [looped EXCEPT !.pc = "done", !.success = Some(TRUE)]
                    ELSE looped]
    /\ UNCHANGED << embedding_model, source, source_embedding, lastCall, editsLeft >>
    /\ UNCHANGED ctxVars
    /\ UNCHANGED rebuildVars
    /\ UNCHANGED splitVars
    /\ UNCHANGED deleteVars
    /\ UNCHANGED retryVars

----------------------------------------------------------------------------
(* Source rows change under the pipeline *)

\* Source.save of an existing source with a new full_text
SourceSave(s, txt) ==
    /\ editsLeft > 0
    /\ source[s].exists
    /\ txt # source[s].full_text
    /\ source' = [source EXCEPT ![s].full_text = txt]
    /\ editsLeft' = editsLeft - 1
    /\ UNCHANGED << embedding_model, source_embedding, vjobs, cjobs,
                    lastCall, faultsLeft >>
    /\ UNCHANGED ctxVars
    /\ UNCHANGED rebuildVars
    /\ UNCHANGED splitVars
    /\ UNCHANGED deleteVars
    /\ UNCHANGED retryVars

----------------------------------------------------------------------------
(* The rows the context builder reads.  The content of a note or of an      *)
(* insight is modelled by its length in characters.                         *)

NoteIds == { "note:1" }

NoteRow(title, chars) == [ exists |-> TRUE, title |-> Some(title), content |-> Some(chars) ]

NoNote == [ exists |-> FALSE, title |-> None, content |-> None ]

InsightRow(id, source_id, insight_type, chars) ==
    [ id |-> id, source |-> source_id, insight_type |-> insight_type, content |-> chars ]

\* ObjectModel.get returns the object or raises NotFoundError
SourceFound(id) == id \in DOMAIN source /\ source[id].exists

NoteFound(id) == id \in DOMAIN note /\ note[id].exists

NotebookFound(id) == id \in DOMAIN notebook

\* Source.get_insights: SELECT * FROM source_insight WHERE source = $id
get_insights(source_id) == SelectSeq(source_insight, LAMBDA row : row.source = source_id)

\* A content dict: keys are the keys present, the other fields their values
\* (None for a key that is absent)
EmptyContent ==
    [ keys |-> { }, id |-> "", title |-> None, insights |-> << >>, full_text |-> None,
      content |-> None, source_id |-> "", insight_type |-> "" ]

\* insight.model_dump()
model_dump(row) == [ id |-> row.id, insight_type |-> row.insight_type, content |-> row.content ]

\* Source.get_context
Source_get_context(id, context_size) ==
    LET ins == get_insights(id)
        short == [EmptyContent EXCEPT
                    !.keys = { "id", "title", "insights" }, !.id = id,
                    !.title = source[id].title,
                    !.insights = [ i \in 1..Len(ins) |-> model_dump(ins[i]) ]]
    IN IF context_size = "long"
       THEN [short EXCEPT !.keys = @ \cup { "full_text" },
                          !.full_text = source[id].full_text]
       ELSE short

\* Note.get_context: the long form carries the content, the short form its
\* first 100 characters (None when the content is None or empty)
Note_get_context(id, context_size) ==
    LET content == note[id].content
        base == [EmptyContent EXCEPT
                    !.keys = { "id", "title", "content" }, !.id = id,
                    !.title = note[id].title]
    IN IF context_size = "long"
       THEN [base EXCEPT !.content = content]
       ELSE [base EXCEPT !.content =
                IF ~IsNone(content) /\ Val(content) > 0
                THEN Some(IF Val(content) < 100 THEN Val(content) ELSE 100)
                ELSE None]

\* The content dict of an insight item
InsightContent(row, source_id) ==
    [EmptyContent EXCEPT
        !.keys = { "id", "source_id", "insight_type", "content" }, !.id = row.id,
        !.source_id = source_id, !.insight_type = row.insight_type,
        !.content = Some(row.content)]

RECURSIVE SumContent(_)
SumContent(insights) ==
    IF insights = << >> THEN 0
    ELSE Head(insights).content + SumContent(Tail(insights))

\* len(str(content)): a fixed cost per key plus the characters of the values;
\* a piece of source text stands for a chunk of 500 characters
StrLen(content) ==
    20 * Cardinality(content.keys)
    + SumContent(content.insights)
    + (IF IsNone(content.full_text) THEN 0 ELSE 500 * Len(Val(content.full_text)))
    + (IF IsNone(content.content) THEN 0 ELSE Val(content.content))

\* token_count: the tokenizer yields about one token per four characters
token_count(chars) == chars \div 4

\* ContextItem with token_count given
ContextItem(id, type, content, priority, tokens) ==
    [ id |-> id, type |-> type, content |-> content, priority |-> priority,
      token_count |-> tokens ]

\* ContextItem.__post_init__: token_count is None, so it is computed
NewContextItem(id, type, content, priority) ==
    ContextItem(id, type, content, priority, token_count(StrLen(content)))

----------------------------------------------------------------------------
(* ContextConfig.  A dict is a sequence of << key, value >> pairs in        *)
(* insertion order.                                                         *)

RECURSIVE DictGet(_, _, _)
DictGet(d, k, default) ==
    IF d = << >> THEN default
    ELSE IF Head(d)[1] = k THEN Head(d)[2]
    ELSE DictGet(Tail(d), k, default)

DefaultWeights == << << "source", 100 >>, << "note", 50 >>, << "insight", 75 >> >>

\* ContextConfig.__post_init__
ContextConfig(sources, notes, priority_weights) ==
    [ sources |-> sources, notes |-> notes,
      priority_weights |-> IF IsNone(priority_weights) THEN DefaultWeights
                           ELSE Val(priority_weights) ]

----------------------------------------------------------------------------
(* ContextBuilder: the list operations *)

RECURSIVE SumTokens(_)
SumTokens(its) ==
    IF its = << >> THEN 0 ELSE Head(its).token_count + SumTokens(Tail(its))

\* remove_duplicates: the loop over self.items with seen_ids
RECURSIVE Deduplicate(_, _, _)
Deduplicate(its, seen_ids, deduplicated_items) ==
    IF its = << >> THEN deduplicated_items
    ELSE IF Head(its).id \notin seen_ids
    THEN Deduplicate(Tail(its), seen_ids \cup { Head(its).id },
                     Append(deduplicated_items, Head(its)))
    ELSE Deduplicate(Tail(its), seen_ids, deduplicated_items)

\* A remove_duplicates that drops nothing
KeepDuplicates(its) == its

remove_duplicates(its) == Deduplicate(its, { }, << >>)

\* list.sort(key = priority, reverse = True) is stable: an item goes behind
\* every item already placed whose priority is at least its own
RECURSIVE InsertByPriority(_, _)
InsertByPriority(sorted, item) ==
    IF sorted = << >> THEN << item >>
    ELSE IF Head(sorted).priority >= item.priority
    THEN << Head(sorted) >> \o InsertByPriority(Tail(sorted), item)
    ELSE << item >> \o sorted

RECURSIVE SortByPriority(_, _)
SortByPriority(its, n) ==
    IF n = 0 THEN << >> ELSE InsertByPriority(SortByPriority(its, n - 1), its[n])

\* A sort that is not stable: an item goes in front of the items of its priority
RECURSIVE InsertBeforeEqual(_, _)
InsertBeforeEqual(sorted, item) ==
    IF sorted = << >> THEN << item >>
    ELSE IF Head(sorted).priority > item.priority
    THEN << Head(sorted) >> \o InsertBeforeEqual(Tail(sorted), item)
    ELSE << item >> \o sorted

RECURSIVE SortUnstable(_, _)
SortUnstable(its, n) ==
    IF n = 0 THEN << >> ELSE InsertBeforeEqual(SortUnstable(its, n - 1), its[n])

PrioritizeUnstable(its) == SortUnstable(its, Len(its))

prioritize(its) == SortByPriority(its, Len(its))

\* while current_tokens > max_tokens and self.items: self.items.pop()
RECURSIVE PopWhileOver(_, _, _)
PopWhileOver(its, current_tokens, max_tokens) ==
    IF current_tokens > max_tokens /\ its # << >>
    THEN PopWhileOver(SubSeq(its, 1, Len(its) - 1),
                      current_tokens - its[Len(its)].token_count, max_tokens)
    ELSE its

\* A truncation that drops from the front of the list
RECURSIVE PopFrontWhileOver(_, _, _)
PopFrontWhileOver(its, current_tokens, max_tokens) ==
    IF current_tokens > max_tokens /\ its # << >>
    THEN PopFrontWhileOver(Tail(its), current_tokens - Head(its).token_count, max_tokens)
    ELSE its

TruncateFromFront(its, max_tokens) ==
    IF max_tokens = 0 THEN its
    ELSE PopFrontWhileOver(its, SumTokens(its), max_tokens)

\* A truncation that never drops the first item
RECURSIVE PopWhileOverKeepOne(_, _, _)
PopWhileOverKeepOne(its, current_tokens, max_tokens) ==
    IF current_tokens > max_tokens /\ Len(its) > 1
    THEN PopWhileOverKeepOne(SubSeq(its, 1, Len(its) - 1),
                             current_tokens - its[Len(its)].token_count, max_tokens)
    ELSE its

TruncateKeepTop(its, max_tokens) ==
    IF max_tokens = 0 THEN its
    ELSE PopWhileOverKeepOne(its, SumTokens(its), max_tokens)

truncate_to_fit(its, max_tokens) ==
    IF max_tokens = 0 THEN its                           \* if not max_tokens: return
    ELSE IF SumTokens(its) <= max_tokens THEN its
    ELSE PopWhileOver(its, SumTokens(its), max_tokens)

----------------------------------------------------------------------------
(* ContextBuilder: collecting *)

\* _add_source_context; a source that is not found is skipped
add_source_context(its, weights, include_insights, source_id, inclusion_level) ==
    IF inclusion_level = "not in" THEN its
    ELSE IF ~SourceFound(source_id) THEN its
    ELSE LET context_size == IF inclusion_level = "full content" THEN "long" ELSE "short"
             item == NewContextItem(source_id, "source",
                                    Source_get_context(source_id, context_size),
                                    DictGet(weights, "source", 100))
             insights == get_insights(source_id)
             insight_items ==
                 IF include_insights /\ inclusion_level = "insights"
                 THEN [ i \in 1..Len(insights) |->
                          NewContextItem(insights[i].id, "insight",
                                         InsightContent(insights[i], source_id),
                                         DictGet(weights, "insight", 75)) ]
                 ELSE << >>
         IN (its \o << item >>) \o insight_items

\* _add_note_context; a note that is not found is skipped
add_note_context(its, weights, note_id, inclusion_level) ==
    IF inclusion_level = "not in" THEN its
    ELSE IF ~NoteFound(note_id) THEN its
    ELSE LET context_size == IF inclusion_level = "full content" THEN "long" ELSE "short"
         IN Append(its, NewContextItem(note_id, "note",
                                       Note_get_context(note_id, context_size),
                                       DictGet(weights, "note", 50)))

\* for source_id, status in config_sources.items(): _add_source_context
RECURSIVE add_sources(_, _, _, _)
add_sources(its, weights, include_insights, statuses) ==
    IF statuses = << >> THEN its
    ELSE add_sources(add_source_context(its, weights, include_insights,
                                        Head(statuses)[1], Head(statuses)[2]),
                     weights, include_insights, Tail(statuses))

\* for note_id, status in config_notes.items(): _add_note_context
RECURSIVE add_notes(_, _, _)
add_notes(its, weights, statuses) ==
    IF statuses = << >> THEN its
    ELSE add_notes(add_note_context(its, weights, Head(statuses)[1], Head(statuses)[2]),
                   weights, Tail(statuses))

\* _add_notebook_context on a notebook that exists
add_notebook_context(its, config, include_insights, include_notes, notebook_id) ==
    LET sources == notebook[notebook_id].sources        \* notebook.get_sources()
        notes == notebook[notebook_id].notes            \* notebook.get_notes()
        source_statuses ==
            IF config.sources # << >> THEN config.sources
            ELSE [ i \in 1..Len(sources) |-> << sources[i], "insights" >> ]
        note_statuses ==
            IF config.notes # << >> THEN config.notes
            ELSE [ i \in 1..Len(notes) |-> << notes[i], "full content" >> ]
        with_sources == add_sources(its, config.priority_weights, include_insights,
                                    source_statuses)
    IN IF include_notes
       THEN add_notes(with_sources, config.priority_weights, note_statuses)
       ELSE with_sources

\* _format_response
Contents(its, type) ==
    LET of_type == SelectSeq(its, LAMBDA item : item.type = type)
    IN [ i \in 1..Len(of_type) |-> of_type[i].content ]

format_response(its, notebook_id) ==
    [ sources |-> Contents(its, "source"), notes |-> Contents(its, "note"),
      insights |-> Contents(its, "insight"),
      total_tokens |-> SumTokens(its), total_items |-> Len(its),
      notebook_id |-> notebook_id ]

----------------------------------------------------------------------------
(* ContextBuilder: the calls *)

NoParams ==
    [ source_id |-> None, notebook_id |-> None, include_insights |-> TRUE,
      include_notes |-> TRUE, max_tokens |-> None, context_config |-> None ]

NoResponse ==
    [ sources |-> << >>, notes |-> << >>, insights |-> << >>,
      total_tokens |-> 0, total_items |-> 0, notebook_id |-> None ]

NoCtxCall ==
    [ op |-> "none", params |-> NoParams, max_tokens |-> None, before |-> << >>,
      collected |-> << >>, sorted |-> << >>, raised |-> FALSE, response |-> NoResponse ]

\* No build call yet (again: the call before it had the same arguments)
NoBuild ==
    [ op |-> "none", params |-> NoParams, again |-> FALSE, raised |-> FALSE,
      response |-> NoResponse ]

\* The items a caller hands to add_item
ItemIds == { "source:1", "note:1" }

ItemType(id) == IF id = "note:1" THEN "note" ELSE "source"

ItemSizes == { << 100, 100 >>, << 75, 80 >>, << 50, 50 >> }

\* The token ceilings a caller passes
Ceilings == { 0, 40, 150 }

\* builder.add_item(ContextItem(id, type, content, priority, token_count))
AddItem(id, priority, tokens) ==
    /\ Len(items) < MaxItems
    /\ items' = Append(items,
                    ContextItem(id, ItemType(id),
                                [EmptyContent EXCEPT !.keys = { "id" }, !.id = id],
                                priority, tokens))
    /\ ctxCall' = [NoCtxCall EXCEPT !.op = "add_item", !.before = items]
    /\ UNCHANGED << note, source_insight, notebook, lastBuild >>
    /\ UNCHANGED embedVars
    /\ UNCHANGED rebuildVars
    /\ UNCHANGED splitVars
    /\ UNCHANGED deleteVars
    /\ UNCHANGED retryVars

RemoveDuplicates ==
    /\ items' = remove_duplicates(items)
    /\ ctxCall' = [NoCtxCall EXCEPT !.op = "remove_duplicates", !.before = items]
    /\ UNCHANGED << note, source_insight, notebook, lastBuild >>
    /\ UNCHANGED embedVars
    /\ UNCHANGED rebuildVars
    /\ UNCHANGED splitVars
    /\ UNCHANGED deleteVars
    /\ UNCHANGED retryVars

Prioritize ==
    /\ items' = prioritize(items)
    /\ ctxCall' = [NoCtxCall EXCEPT !.op = "prioritize", !.before = items]
    /\ UNCHANGED << note, source_insight, notebook, lastBuild >>
    /\ UNCHANGED embedVars
    /\ UNCHANGED rebuildVars
    /\ UNCHANGED splitVars
    /\ UNCHANGED deleteVars
    /\ UNCHANGED retryVars

TruncateToFit(max_tokens) ==
    /\ items' = truncate_to_fit(items, max_tokens)
    /\ ctxCall' = [NoCtxCall EXCEPT !.op = "truncate_to_fit", !.before = items,
                                    !.max_tokens = Some(max_tokens)]
    /\ UNCHANGED << note, source_insight, notebook, lastBuild >>
    /\ UNCHANGED embedVars
    /\ UNCHANGED rebuildVars
    /\ UNCHANGED splitVars
    /\ UNCHANGED deleteVars
    /\ UNCHANGED retryVars

\* An inclusion map that names a source that is not in the store
StatusesB == << << "source:9", "insights" >>, << "source:1", "insights" >> >>

\* The context_config arguments a caller passes
StatusesA == << << "source:1", "full content" >>, << "source:2", "not in" >> >>

Configs ==
    { ContextConfig(StatusesA, << >>, None),
      ContextConfig(<< >>, << << "note:1", "insights" >> >>, None),
      ContextConfig(<< >>, << << "note:1", "not in" >> >>, Some(<< << "note", 100 >> >>)),
      ContextConfig(StatusesA, << << "note:1", "insights" >> >>,
                    Some(<< << "note", 100 >> >>)),
      ContextConfig(StatusesB, << << "note:9", "full content" >>,
                                  << "note:1", "full content" >> >>, None) }

\* The keyword arguments a caller constructs the builder with
BuildParams ==
    [ source_id : { None, Some("source:1"), Some("source:9") },
      notebook_id : { None, Some("notebook:1"), Some("notebook:9") },
      include_insights : { TRUE },
      include_notes : { TRUE },
      max_tokens : { None, Some(40), Some(150) },
      context_config : { None } ]
    \cup
    [ source_id : { None, Some("source:1") },
      notebook_id : { Some("notebook:1") },
      include_insights : BOOLEAN,
      include_notes : BOOLEAN,
      max_tokens : { None, Some(0) },
      context_config : { None } ]
    \cup
    [ source_id : { None, Some("source:1") },
      notebook_id : { Some("notebook:1") },
      include_insights : { TRUE },
      include_notes : { TRUE },
      max_tokens : { None },
      context_config : { Some(c) : c \in Configs } ]

\* A build that gives up on a source_id that is not found
BuildRaisesOnMissingSource(params) ==
    \/ ~IsNone(params.notebook_id) /\ ~NotebookFound(Val(params.notebook_id))
    \/ ~IsNone(params.source_id) /\ ~SourceFound(Val(params.source_id))

\* Notebook.get raises NotFoundError for a notebook that is not there, and
\* build re-raises it
BuildRaises(params) ==
    ~IsNone(params.notebook_id) /\ ~NotebookFound(Val(params.notebook_id))

\* The collecting steps of build: the source, then the notebook
Collect(params) ==
    LET config == IF IsNone(params.context_config)
                  THEN ContextConfig(<< >>, << >>, None)
                  ELSE Val(params.context_config)
        with_source ==
            IF ~IsNone(params.source_id)
            THEN add_source_context(<< >>, config.priority_weights,
                                    params.include_insights, Val(params.source_id),
                                    "insights")
            ELSE << >>
    IN IF IsNone(params.notebook_id) \/ BuildRaises(params) THEN with_source
       ELSE add_notebook_context(with_source, config, params.include_insights,
                                 params.include_notes, Val(params.notebook_id))

\* A build that keeps the items the builder holds
KeepItems(its) == its

\* self.items = [] at the start of build
ClearItems(its) == << >>

\* ContextBuilder(**params).build()
Build(params) ==
    \E collected \in { ClearItems(items) \o Collect(params) } :
    \E sorted \in { prioritize(remove_duplicates(collected)) } :
    \E final \in { IF ~IsNone(params.max_tokens) /\ Val(params.max_tokens) # 0
                   THEN truncate_to_fit(sorted, Val(params.max_tokens))
                   ELSE sorted } :
        /\ items' = IF BuildRaises(params) THEN collected ELSE final
        /\ ctxCall' = [ op |-> "build", params |-> params,
                        max_tokens |-> params.max_tokens,
                        before |-> << >>,                 \* self.items = []
                        collected |-> collected,
                        sorted |-> IF BuildRaises(params) THEN << >> ELSE sorted,
                        raised |-> BuildRaises(params),
                        response |-> IF BuildRaises(params) THEN NoResponse
                                     ELSE format_response(final, params.notebook_id) ]
        /\ UNCHANGED << note, source_insight, notebook >>
        /\ UNCHANGED embedVars
        /\ UNCHANGED rebuildVars
        /\ UNCHANGED splitVars
        /\ UNCHANGED deleteVars
        /\ UNCHANGED retryVars

----------------------------------------------------------------------------
(* split_text as a function of its input.  A text is the sequence of its    *)
(* pieces: runs of content that fit one chunk each, and runs of whitespace. *)

MaxPieces == 4

Pieces == { "a1", "a2", "ws" }

RECURSIVE SeqsUpTo(_)
SeqsUpTo(n) ==
    IF n = 0 THEN { << >> }
    ELSE SeqsUpTo(n - 1) \cup
           { Append(t, p) : t \in { u \in SeqsUpTo(n - 1) : Len(u) = n - 1 }, p \in Pieces }

SplitInputs == SeqsUpTo(MaxPieces)

\* chunks = split_text(txt)
SplitText(txt) ==
    /\ splitCall' = [ txt |-> txt, chunks |-> Some(split_text(txt)) ]
    /\ UNCHANGED embedVars
    /\ UNCHANGED ctxVars
    /\ UNCHANGED rebuildVars
    /\ UNCHANGED deleteVars
    /\ UNCHANGED retryVars

----------------------------------------------------------------------------
(* Source.delete *)

\* The path of the uploaded file of each source
FilePath(s) == IF s = "source:1" THEN "f1" ELSE "f2"

\* Removal of a source takes its chunk records along
CascadeDelete(table, source_id) == { row \in table : row.source # source_id }

\* A delete that gives up when the file cannot be removed
RecordDeleteAfterCleanUp(file_error, dbok) == ~file_error /\ dbok

\* super().delete() is reached whatever the file clean-up did, and deletes the
\* record unless repo_delete raises
RecordDeleted(file_error, dbok) == dbok

\* Source.delete on the Source object loaded from row s
\* (unlink_ok = FALSE: os.unlink raised; dbok = FALSE: repo_delete raised)
SourceDelete(s, unlink_ok, dbok) ==
    LET has_file == ~IsNone(asset[s]) /\ Val(asset[s]) \in files
        unlinked == has_file /\ unlink_ok
        faults == (IF unlink_ok THEN 0 ELSE 1) + (IF dbok THEN 0 ELSE 1)
        file_error == has_file /\ ~unlink_ok
        deleted == RecordDeleted(file_error, dbok)
    IN
    /\ source[s].exists
    /\ ~unlink_ok => has_file
    /\ faultsLeft >= faults
    /\ faultsLeft' = faultsLeft - faults
    /\ files' = IF unlinked THEN files \ { Val(asset[s]) } ELSE files
    /\ IF deleted
       THEN /\ source' = [source EXCEPT ![s] = NoRow]
            /\ source_embedding' = CascadeDelete(source_embedding, s)
       ELSE UNCHANGED << source, source_embedding >>
    /\ deleteCall' = [ op |-> "Source.delete", source_id |-> s,
                       raised |-> ~deleted, unlinked |-> unlinked,
                       file_error |-> file_error ]
    /\ UNCHANGED << embedding_model, vjobs, cjobs, lastCall, editsLeft, asset >>
    /\ UNCHANGED ctxVars
    /\ UNCHANGED rebuildVars
    /\ UNCHANGED splitVars
    /\ UNCHANGED retryVars

----------------------------------------------------------------------------
(* POST /sources/{source_id}/retry and the process_source job it submits *)

MaxRetries == 3       \* process_source jobs submitted in one behaviour

ActiveStatuses == { "running", "queued" }

NoRetryCall ==
    [ op |-> "none", source_id |-> "", seen |-> None, status_code |-> 0,
      detail |-> "" ]

NoRetryState ==
    /\ command = [ s \in DOMAIN source |-> None ]
    /\ pjobs = << >>
    /\ reference = [ s \in DOMAIN source |-> { } ]
    /\ retryCall = NoRetryCall

\* Source.get_status: None without a command link, "unknown" when the lookup
\* raises, otherwise the status of the linked job
get_status(s, lookup_ok) ==
    IF IsNone(command[s]) THEN None
    ELSE IF lookup_ok THEN Some(pjobs[Val(command[s])].status)
    ELSE Some("unknown")

\* The classes "except Exception" catches: HTTPException derives from Exception
CaughtByExceptException(exc) == exc \in { "HTTPException", "Exception" }

\* The check for a running command: the HTTPException(400) is raised inside
\* the try block whose "except Exception" logs a warning and continues
StatusCheck(status) ==
    IF ~IsNone(status) /\ Val(status) \in ActiveStatuses
    THEN IF CaughtByExceptException("HTTPException") THEN "continue" ELSE "refuse"
    ELSE "continue"

\* content_state: the uploaded file, else the text of the source, else nothing
ContentState(s) ==
    IF ~IsNone(asset[s]) THEN "file_path"
    ELSE IF ~IsNone(source[s].full_text) /\ Val(source[s].full_text) # << >>
         THEN "content"
    ELSE "none"

RetryResponse(s, seen, code, detail) ==
    [ op |-> "retry", source_id |-> s, seen |-> seen, status_code |-> code,
      detail |-> detail ]

\* retry_source_processing(source_id)
\* (lookup_ok = FALSE: get_command_status raised; submit_ok = FALSE:
\*  submit_command_job raised; save_ok = FALSE: source.save raised)
RetrySourceProcessing(s, lookup_ok, submit_ok, save_ok) ==
    LET seen == get_status(s, lookup_ok)
        refused == StatusCheck(seen) = "refuse"
        rejected == reference[s] = { } \/ ContentState(s) = "none"
    IN
    /\ Len(pjobs) < MaxRetries
    /\ ~lookup_ok => source[s].exists /\ ~IsNone(command[s])
    /\ ~submit_ok => save_ok
    /\ (~submit_ok \/ ~save_ok) => source[s].exists /\ ~refused /\ ~rejected
    /\ IF ~source[s].exists
       THEN \* Source.get raises NotFoundError, the outer handler answers 500
            /\ retryCall' = RetryResponse(s, None, 500, "Error retrying source processing")
            /\ UNCHANGED << command, pjobs >>
       ELSE IF refused
       THEN /\ retryCall' = RetryResponse(s, seen, 400, "Source is already processing")
            /\ UNCHANGED << command, pjobs >>
       ELSE IF reference[s] = { }
       THEN /\ retryCall' = RetryResponse(s, seen, 400,
                                "Source is not associated with any notebooks")
            /\ UNCHANGED << command, pjobs >>
       ELSE IF ContentState(s) = "none"
       THEN /\ retryCall' = RetryResponse(s, seen, 400,
                                "Cannot determine source content for retry")
            /\ UNCHANGED << command, pjobs >>
       ELSE IF ~submit_ok
       THEN /\ retryCall' = RetryResponse(s, seen, 500, "Failed to queue retry processing")
            /\ UNCHANGED << command, pjobs >>
       ELSE /\ pjobs' = Append(pjobs, [ source_id |-> s, status |-> "queued" ])
            /\ IF save_ok
               THEN /\ command' = [command EXCEPT ![s] = Some(Len(pjobs) + 1)]
                    /\ retryCall' = RetryResponse(s, seen, 200, "queued")
               ELSE /\ UNCHANGED command
                    /\ retryCall' = RetryResponse(s, seen, 500,
                                        "Failed to queue retry processing")
    /\ UNCHANGED reference
    /\ UNCHANGED embedVars
    /\ UNCHANGED ctxVars
    /\ UNCHANGED rebuildVars
    /\ UNCHANGED splitVars
    /\ UNCHANGED deleteVars

\* The worker takes a queued process_source job: process_source_command loads
\* the source and saves its own command id into source.command
ProcessSourceStart(j) ==
    /\ pjobs[j].status = "queued"
    /\ pjobs' = [pjobs EXCEPT ![j].status = "running"]
    /\ command' = IF source[pjobs[j].source_id].exists
                  THEN [command EXCEPT ![pjobs[j].source_id] = Some(j)]
                  ELSE command
    /\ UNCHANGED << reference, retryCall >>
    /\ UNCHANGED embedVars
    /\ UNCHANGED ctxVars
    /\ UNCHANGED rebuildVars
    /\ UNCHANGED splitVars
    /\ UNCHANGED deleteVars

\* A running process_source job ends
ProcessSourceEnd(j, ok) ==
    /\ pjobs[j].status = "running"
    /\ pjobs' = [pjobs EXCEPT ![j].status = IF ok THEN "completed" ELSE "failed"]
    /\ UNCHANGED << command, reference, retryCall >>
    /\ UNCHANGED embedVars
    /\ UNCHANGED ctxVars
    /\ UNCHANGED rebuildVars
    /\ UNCHANGED splitVars
    /\ UNCHANGED deleteVars

----------------------------------------------------------------------------
(* Embedding fields *)

\* An embedding field: value is "none" (NONE), "empty" ([]) or "vec" (a
\* vector); by names the execution that wrote it ("" for a value that was there before)
Embedding(value, by) == [ value |-> value, by |-> by ]

NoEmbedding == Embedding("none", "")

NoSingleCall ==
    [ op |-> "none", item_type |-> "", item_id |-> "", success |-> None,
      chunks_created |-> 0, error_message |-> None ]

NoSplitCall == [ txt |-> << >>, chunks |-> None ]

NoDeleteCall ==
    [ op |-> "none", source_id |-> "", raised |-> FALSE, unlinked |-> FALSE,
      file_error |-> FALSE ]

----------------------------------------------------------------------------
(* rebuild_embeddings *)

\* Any embedding field that is present, an empty one included
EmbeddingPresent(value) == value # "none"

\* embedding != none AND array::len(embedding) > 0
HasVector(value) == value # "none" /\ value # "empty"

\* The order in which a SELECT over a table returns its rows
SourceOrder == << "source:1", "source:2", "source:3", "source:4" >>

NoteOrder == << "note:1", "note:2", "note:3" >>

\* array::distinct(SELECT VALUE source.id FROM source_embedding WHERE ...)
EmbeddedSources ==
    SelectSeq(SourceOrder,
              LAMBDA s : \E row \in source_embedding :
                            row.source = s /\ HasVector(row.embedding))

\* SELECT id FROM source WHERE full_text != none
SourcesWithText ==
    SelectSeq(SourceOrder,
              LAMBDA s : s \in DOMAIN source /\ source[s].exists
                            /\ ~IsNone(source[s].full_text))

\* SELECT id FROM note WHERE embedding != none AND array::len(embedding) > 0
EmbeddedNotes ==
    SelectSeq(NoteOrder,
              LAMBDA n : n \in DOMAIN note /\ note[n].exists
                            /\ HasVector(note_embedding[n].value))

\* SELECT id FROM note WHERE content != none
NotesWithContent ==
    SelectSeq(NoteOrder,
              LAMBDA n : n \in DOMAIN note /\ note[n].exists /\ ~IsNone(note[n].content))

InsightIdsOf(rows) == [ i \in 1..Len(rows) |-> rows[i].id ]

\* SELECT id FROM source_insight WHERE embedding != none AND array::len(embedding) > 0
EmbeddedInsights ==
    InsightIdsOf(SelectSeq(source_insight,
                           LAMBDA row : HasVector(insight_embedding[row.id].value)))

\* SELECT id FROM source_insight
AllInsights == InsightIdsOf(source_insight)

\* collect_items_for_rebuild
collect_items_for_rebuild(mode, include_sources, include_notes, include_insights) ==
    [ sources |-> IF ~include_sources THEN << >>
                  ELSE IF mode = "existing" THEN EmbeddedSources ELSE SourcesWithText,
      notes |-> IF ~include_notes THEN << >>
                ELSE IF mode = "existing" THEN EmbeddedNotes ELSE NotesWithContent,
      insights |-> IF ~include_insights THEN << >>
                   ELSE IF mode = "existing" THEN EmbeddedInsights ELSE AllInsights ]

\* The three loops walk the sources, then the notes, then the insights
Worklist(collected) ==
    ([ i \in 1..Len(collected.sources) |-> << "source", collected.sources[i] >> ]
       \o [ i \in 1..Len(collected.notes) |-> << "note", collected.notes[i] >> ])
       \o [ i \in 1..Len(collected.insights) |-> << "insight", collected.insights[i] >> ]

\* RebuildEmbeddingsInput and the job's progress
NewRebuildJob(mode, include_sources, include_notes, include_insights) ==
    [ mode |-> mode, include_sources |-> include_sources,
      include_notes |-> include_notes, include_insights |-> include_insights,
      pc |-> "queued", worklist |-> << >>, idx |-> 0,
      outcomes |-> << >>,          \* per item attempted: "ok" or the failure
      runs |-> << >>,              \* per item attempted: the vectorize_source job submitted, or 0
      total_items |-> 0, processed_items |-> 0, failed_items |-> 0,
      sources_processed |-> 0, notes_processed |-> 0, insights_processed |-> 0,
      success |-> None, error_message |-> None ]

\* The except clause of rebuild_embeddings_command
RebuildFailure(job, msg) ==
    [job EXCEPT !.pc = "done", !.success = Some(FALSE), !.total_items = 0,
                !.processed_items = 0, !.failed_items = 0,
                !.sources_processed = 0, !.notes_processed = 0,
                !.insights_processed = 0, !.error_message = Some(msg)]

\* The model check and the collection (dbok = FALSE: a collecting query raised)
RebuildStart(r, dbok) ==
    LET job == rjobs[r]
        collected == collect_items_for_rebuild(job.mode, job.include_sources,
                                               job.include_notes, job.include_insights)
        worklist == Worklist(collected)
    IN
    /\ job.pc = "queued"
    /\ ~dbok => faultsLeft > 0 /\ embedding_model
    /\ faultsLeft' = IF dbok THEN faultsLeft ELSE faultsLeft - 1
    /\ rjobs' = [rjobs EXCEPT ![r] =
          IF ~embedding_model THEN RebuildFailure(job, "no_model")
          ELSE IF ~dbok THEN RebuildFailure(job, "collect_error")
          ELSE IF Len(worklist) = 0
          THEN [job EXCEPT !.pc = "done", !.success = Some(TRUE)]
          ELSE [job EXCEPT !.pc = "running", !.worklist = worklist,
                           !.total_items = Len(worklist)]]
    /\ UNCHANGED << embedding_model, source, source_embedding, vjobs, cjobs,
                    lastCall, editsLeft >>
    /\ UNCHANGED ctxVars
    /\ UNCHANGED splitVars
    /\ UNCHANGED deleteVars
    /\ UNCHANGED retryVars
    /\ UNCHANGED << note_embedding, insight_embedding, singleCall >>

\* What the processing of one item runs into.  "ok": nothing is injected;
\* "not_found": the get raises; "embed_error": the embedding call raises;
\* "write_error": the store write (for a source: submit_command) raises.
ItemOutcomes == { "ok", "not_found", "embed_error", "write_error" }

InsightFound(id) == \E i \in 1..Len(source_insight) : source_insight[i].id = id

ItemFound(type, id) ==
    CASE type = "source" -> SourceFound(id)
      [] type = "note" -> NoteFound(id)
      [] type = "insight" -> InsightFound(id)

\* Note.save embeds the content only when there is some
HasContent(id) == ~IsNone(note[id].content) /\ Val(note[id].content) > 0

\* How the re-embedding of one item ends: "ok" or the kind of the exception
\* (source: get + vectorize; note: get + save; insight: get + aembed + UPDATE)
ItemResult(type, id, outcome) ==
    IF outcome = "not_found" \/ ~ItemFound(type, id) THEN "not_found"
    ELSE IF type = "source"
    THEN IF ~Truthy(source[id].full_text) THEN "no_text"
         ELSE IF outcome = "write_error" THEN "submit_error"
         ELSE "ok"
    ELSE IF type = "note" /\ ~HasContent(id)
    THEN IF outcome = "write_error" THEN "write_error" ELSE "ok"
    ELSE outcome

\* An injected failure needs a fault to spend, and a source has no embedding call
ItemOutcomeAllowed(type, outcome) ==
    /\ outcome # "ok" => faultsLeft > 0
    /\ outcome = "embed_error" => type # "source"

\* Source.vectorize submits a vectorize_source job
VectorizeSubmitted(type, id, result) ==
    IF type = "source" /\ result = "ok" THEN Append(vjobs, NewVectorizeJob(id)) ELSE vjobs

\* Note.save writes data["embedding"]
NoteEmbedded(type, id, result, by) ==
    IF type = "note" /\ result = "ok" /\ HasContent(id)
    THEN [note_embedding EXCEPT ![id] = Embedding("vec", by)]
    ELSE note_embedding

\* UPDATE $insight_id SET embedding = $embedding
InsightEmbedded(type, id, result, by) ==
    IF type = "insight" /\ result = "ok"
    THEN [insight_embedding EXCEPT ![id] = Embedding("vec", by)]
    ELSE insight_embedding

\* A result that reports every attempted item as processed
CountAttempted(looped, ok) ==
    IF looped.idx = Len(looped.worklist)
    THEN [looped EXCEPT !.pc = "done", !.success = Some(TRUE),
                        !.processed_items = looped.idx]
    ELSE looped

\* A loop whose first failing item ends the run with a failure
AbortOnFailure(looped, ok) ==
    IF ~ok
    THEN [looped EXCEPT !.pc = "done", !.success = Some(FALSE),
                        !.error_message = Some("item_error")]
    ELSE IF looped.idx = Len(looped.worklist)
    THEN [looped EXCEPT
            !.pc = "done", !.success = Some(TRUE),
            !.processed_items = looped.sources_processed + looped.notes_processed
                                   + looped.insights_processed]
    ELSE looped

\* After a pass, failed or not: the next item, or past the last one the
\* success result with processed_items summed up
AfterItem(looped, ok) ==
    IF looped.idx = Len(looped.worklist)
    THEN [looped EXCEPT
            !.pc = "done", !.success = Some(TRUE),
            !.processed_items = looped.sources_processed + looped.notes_processed
                                   + looped.insights_processed]
    ELSE looped

\* One pass of the loops of rebuild_embeddings_command; the pass for the last
\* item also returns the result
RebuildStep(r, outcome) ==
    LET job == rjobs[r]
        type == job.worklist[job.idx + 1][1]
        id == job.worklist[job.idx + 1][2]
        result == ItemResult(type, id, outcome)
        ok == result = "ok"
        looped == [job EXCEPT
            !.idx = @ + 1,
            !.outcomes = Append(@, result),
            !.runs = Append(@, IF type = "source" /\ ok THEN Len(vjobs) + 1 ELSE 0),
            !.sources_processed = IF type = "source" /\ ok THEN @ + 1 ELSE @,
            !.notes_processed = IF type = "note" /\ ok THEN @ + 1 ELSE @,
            !.insights_processed = IF type = "insight" /\ ok THEN @ + 1 ELSE @,
            !.failed_items = IF ok THEN @ ELSE @ + 1]
    IN
    /\ job.pc = "running"
    /\ job.idx < Len(job.worklist)
    /\ ItemOutcomeAllowed(type, outcome)
    /\ faultsLeft' = IF outcome = "ok" THEN faultsLeft ELSE faultsLeft - 1
    /\ vjobs' = VectorizeSubmitted(type, id, result)
    /\ note_embedding' = NoteEmbedded(type, id, result, "rebuild_embeddings")
    /\ insight_embedding' = InsightEmbedded(type, id, result, "rebuild_embeddings")
    /\ rjobs' = [rjobs EXCEPT ![r] = AfterItem(looped, ok)]
    /\ UNCHANGED << embedding_model, source, source_embedding, cjobs, lastCall,
                    editsLeft, singleCall >>
    /\ UNCHANGED ctxVars
    /\ UNCHANGED splitVars
    /\ UNCHANGED deleteVars
    /\ UNCHANGED retryVars

----------------------------------------------------------------------------
(* embed_single_item *)

SingleItems ==
    { << "source", "source:1" >>, << "source", "source:4" >>,
      << "note", "note:2" >>, << "note", "note:9" >>,
      << "insight", "source_insight:2" >> }

\* embed_single_item_command
EmbedSingleItem(type, id, outcome) ==
    LET result == IF ~embedding_model THEN "no_model" ELSE ItemResult(type, id, outcome)
        ok == result = "ok"
    IN
    /\ ItemOutcomeAllowed(type, outcome)
    /\ ~embedding_model => outcome = "ok"
    /\ type = "source" => Len(vjobs) < MaxRuns
    /\ faultsLeft' = IF outcome = "ok" THEN faultsLeft ELSE faultsLeft - 1
    /\ vjobs' = VectorizeSubmitted(type, id, result)
    /\ note_embedding' = NoteEmbedded(type, id, result, "embed_single_item")
    /\ insight_embedding' = InsightEmbedded(type, id, result, "embed_single_item")
    /\ singleCall' =
          [ op |-> "embed_single_item", item_type |-> type, item_id |-> id,
            success |-> Some(ok),
            chunks_created |-> IF type = "source" /\ ok
                               THEN Cardinality(RowsOf(source_embedding, id)) ELSE 0,
            error_message |-> IF ok THEN None ELSE Some(result) ]
    /\ UNCHANGED << embedding_model, source, source_embedding, cjobs, lastCall,
                    editsLeft, rjobs >>
    /\ UNCHANGED ctxVars
    /\ UNCHANGED splitVars
    /\ UNCHANGED deleteVars
    /\ UNCHANGED retryVars

----------------------------------------------------------------------------
(* Initial states and specifications *)

NoCall == [ op |-> "none", source_id |-> "", full_text |-> None, raised |-> FALSE ]

\* The rows the context builder reads, fixed while the pipeline runs
InitLibrary ==
    /\ note = [ n \in NoteIds |->
                  IF n = "note:1" THEN NoteRow("Note 1", 400) ELSE NoNote ]
    /\ source_insight = << InsightRow("source_insight:1", "source:1", "summary", 120) >>
    /\ notebook = [ b \in { "notebook:1" } |->
                      [ sources |-> << "source:1", "source:2" >>, notes |-> << "note:1" >> ] ]

InitContext ==
    /\ InitLibrary
    /\ items = << >>
    /\ ctxCall = NoCtxCall
    /\ lastBuild = NoBuild
    /\ note_embedding = [ n \in NoteIds |-> NoEmbedding ]
    /\ insight_embedding = [ i \in { "source_insight:1" } |-> NoEmbedding ]
    /\ rjobs = << >>
    /\ singleCall = NoSingleCall
    /\ splitCall = NoSplitCall
    /\ asset = [ s \in DOMAIN source |-> None ]
    /\ files = { }
    /\ deleteCall = NoDeleteCall
    /\ NoRetryState

Init ==
    /\ embedding_model \in BOOLEAN
    /\ source = [ s \in SourceIds |->
                    IF s = "source:1" THEN SourceRow("Title 1", Some(TextA)) ELSE NoRow ]
    /\ source_embedding = { }
    /\ vjobs = << >>
    /\ cjobs = << >>
    /\ lastCall = NoCall
    /\ faultsLeft = MaxFaults
    /\ editsLeft = MaxEdits
    /\ InitContext

Next ==
    \/ \E s \in SourceIds : ExecuteCommand(s)
    \/ \E s \in SourceIds : \E submitted \in BOOLEAN : SourceVectorize(s, submitted)
    \/ \E r \in DOMAIN vjobs : \E dbok \in BOOLEAN : VectorizeLoad(r, dbok)
    \/ \E r \in DOMAIN vjobs : \E dbok \in BOOLEAN : VectorizeDelete(r, dbok)
    \/ \E r \in DOMAIN vjobs : \E ok \in BOOLEAN : VectorizeSubmit(r, ok)
    \/ \E j \in DOMAIN cjobs : \E o \in AttemptOutcomes : EmbedChunk(j, o)
    \/ \E s \in SourceIds : \E txt \in { None } \cup { Some(t) : t \in Texts } : SourceSave(s, txt)

Spec == Init /\ [][Next]_vars

----------------------------------------------------------------------------
(* The retry behaviour of embed_chunk on its own: a vectorize_source run    *)
(* over TextA has dispatched both chunks, and the environment may fail      *)
(* every attempt of both jobs.                                              *)

DispatchedRun ==
    [ NewVectorizeJob("source:1") EXCEPT
        !.pc = "done", !.full_text = Some(TextA), !.chunks = split_text(TextA),
        !.idx = 2, !.jobs_submitted = 2, !.deleted_count = Some(0),
        !.success = Some(TRUE), !.total_chunks = 2, !.quiet = TRUE ]

InitRetry ==
    /\ embedding_model \in BOOLEAN
    /\ source = [ s \in SourceIds |->
                    IF s = "source:1" THEN SourceRow("Title 1", Some(TextA)) ELSE NoRow ]
    /\ source_embedding = { }
    /\ vjobs = << DispatchedRun >>
    /\ cjobs = << NewChunkJob("source:1", 0, "a1", 1), NewChunkJob("source:1", 1, "a2", 1) >>
    /\ lastCall = NoCall
    /\ faultsLeft = 2 * MaxAttempts + 2
    /\ editsLeft = 0
    /\ InitContext

Attempt(j) == \E o \in AttemptOutcomes : EmbedChunk(j, o)

NextRetry == \E j \in DOMAIN cjobs : Attempt(j)

SpecRetry == InitRetry /\ [][NextRetry]_vars

\* The worker pool runs every queued job: a dispatched job is not left waiting forever
FairSpecRetry == SpecRetry /\ \A j \in 1..2 : WF_vars(Attempt(j))

----------------------------------------------------------------------------
(* The context builder on its own, over a library of two sources, one       *)
(* insight and one note in one notebook; the pipeline is idle.              *)

InitCtx ==
    /\ embedding_model = TRUE
    /\ source = [ s \in SourceIds |->
                    IF s = "source:1" THEN SourceRow("Title 1", Some(TextA))
                    ELSE SourceRow("Title 2", Some(TextB)) ]
    /\ source_embedding = { }
    /\ vjobs = << >>
    /\ cjobs = << >>
    /\ lastCall = NoCall
    /\ faultsLeft = 0
    /\ editsLeft = 0
    /\ InitContext

NextCtx ==
    \/ \E id \in ItemIds : \E size \in ItemSizes : AddItem(id, size[1], size[2])
    \/ RemoveDuplicates
    \/ Prioritize
    \/ \E m \in Ceilings : TruncateToFit(m)
    \/ \E params \in BuildParams : Build(params) /\ UNCHANGED lastBuild

SpecCtx == InitCtx /\ [][NextCtx]_vars

----------------------------------------------------------------------------
(* A rebuild over a library of four sources (three with text: one embedded, *)
(* one not, one whose only record has an empty embedding), three notes and  *)
(* two insights, with the worker pool running the jobs it submits.          *)

OldRow(n, source_id, embedding) ==
    [NewRow(0, n, source_id, 0, "b1") EXCEPT !.embedding = embedding]

RebuildInputs ==
    { NewRebuildJob(mode, flags[1], flags[2], flags[3]) :
        mode \in { "existing", "all" },
        flags \in { << TRUE, TRUE, TRUE >>, << TRUE, FALSE, FALSE >>,
                    << FALSE, TRUE, TRUE >>, << FALSE, FALSE, FALSE >> } }

RebuildLibrary ==
    /\ embedding_model \in BOOLEAN
    /\ source = [ s \in { "source:1", "source:2", "source:3", "source:4" } |->
                    IF s = "source:4" THEN SourceRow("Title 4", None)
                    ELSE SourceRow("Title", Some(TextB)) ]
    /\ source_embedding = { OldRow(1, "source:1", "vec"), OldRow(2, "source:3", "empty") }
    /\ vjobs = << >>
    /\ cjobs = << >>
    /\ lastCall = NoCall
    /\ faultsLeft = MaxFaults
    /\ editsLeft = 0
    /\ note = [ n \in { "note:1", "note:2", "note:3" } |->
                  IF n = "note:3" THEN [NoteRow("Note 3", 0) EXCEPT !.content = None]
                  ELSE NoteRow("Note", 400) ]
    /\ source_insight = << InsightRow("source_insight:1", "source:1", "summary", 120),
                           InsightRow("source_insight:2", "source:2", "summary", 80) >>
    /\ notebook = [ b \in { "notebook:1" } |->
                      [ sources |-> << "source:1", "source:2" >>, notes |-> << "note:1" >> ] ]
    /\ items = << >>
    /\ ctxCall = NoCtxCall
    /\ lastBuild = NoBuild
    /\ note_embedding = [ n \in { "note:1", "note:2", "note:3" } |->
                            IF n = "note:1" THEN Embedding("vec", "")
                            ELSE IF n = "note:2" THEN Embedding("empty", "")
                            ELSE NoEmbedding ]
    /\ insight_embedding = [ i \in { "source_insight:1", "source_insight:2" } |->
                               IF i = "source_insight:1" THEN Embedding("vec", "")
                               ELSE NoEmbedding ]
    /\ singleCall = NoSingleCall
    /\ splitCall = NoSplitCall
    /\ asset = [ s \in DOMAIN source |-> None ]
    /\ files = { }
    /\ deleteCall = NoDeleteCall
    /\ NoRetryState

InitRebuild ==
    /\ RebuildLibrary
    /\ \E job \in RebuildInputs : rjobs = << job >>

NextRebuild ==
    \/ \E r \in DOMAIN rjobs : \E dbok \in BOOLEAN : RebuildStart(r, dbok)
    \/ \E r \in DOMAIN rjobs : \E o \in ItemOutcomes : RebuildStep(r, o)
    \/ \E r \in DOMAIN vjobs : \E dbok \in BOOLEAN : VectorizeLoad(r, dbok)
    \/ \E r \in DOMAIN vjobs : \E dbok \in BOOLEAN : VectorizeDelete(r, dbok)
    \/ \E r \in DOMAIN vjobs : \E ok \in BOOLEAN : VectorizeSubmit(r, ok)
    \/ \E j \in DOMAIN cjobs : \E o \in AttemptOutcomes : EmbedChunk(j, o)

SpecRebuild == InitRebuild /\ [][NextRebuild]_vars

\* The four job-shaped operations side by side: single-item calls and
\* vectorize_source submissions next to a rebuild of the embedded notes
InitJobs ==
    /\ RebuildLibrary
    /\ rjobs = << NewRebuildJob("existing", FALSE, TRUE, FALSE) >>

NextJobs ==
    \/ \E item \in SingleItems : \E o \in ItemOutcomes : EmbedSingleItem(item[1], item[2], o)
    \/ \E s \in SourceIds : ExecuteCommand(s)
    \/ NextRebuild

SpecJobs == InitJobs /\ [][NextJobs]_vars

\* split_text called on one text after another
InitSplit == InitCtx

NextSplit == \E txt \in SplitInputs : SplitText(txt)

SpecSplit == InitSplit /\ [][NextSplit]_vars

\* Sources are deleted while the vectorization pipeline runs.  source:1 may
\* have an uploaded file, and the file may be gone from the disk.
InitDelete ==
    /\ embedding_model = TRUE
    /\ source = [ s \in SourceIds |->
                    IF s = "source:1" THEN SourceRow("Title 1", Some(TextB))
                    ELSE SourceRow("Title 2", None) ]
    /\ source_embedding = { }
    /\ vjobs = << >>
    /\ cjobs = << >>
    /\ lastCall = NoCall
    /\ faultsLeft = MaxFaults
    /\ editsLeft = 0
    /\ InitLibrary
    /\ items = << >>
    /\ ctxCall = NoCtxCall
    /\ lastBuild = NoBuild
    /\ note_embedding = [ n \in NoteIds |-> NoEmbedding ]
    /\ insight_embedding = [ i \in { "source_insight:1" } |-> NoEmbedding ]
    /\ rjobs = << >>
    /\ singleCall = NoSingleCall
    /\ splitCall = NoSplitCall
    /\ asset \in [ SourceIds -> { None } \cup { Some(FilePath(s)) : s \in SourceIds } ]
    /\ \A s \in SourceIds : asset[s] \in { None, Some(FilePath(s)) }
    /\ files \in SUBSET { FilePath(s) : s \in SourceIds }
    /\ deleteCall = NoDeleteCall
    /\ NoRetryState

NextDelete ==
    \/ \E s \in SourceIds : \E unlink_ok, dbok \in BOOLEAN : SourceDelete(s, unlink_ok, dbok)
    \/ \E s \in SourceIds : ExecuteCommand(s)
    \/ \E r \in DOMAIN vjobs : \E dbok \in BOOLEAN : VectorizeLoad(r, dbok)
    \/ \E r \in DOMAIN vjobs : \E dbok \in BOOLEAN : VectorizeDelete(r, dbok)
    \/ \E r \in DOMAIN vjobs : \E ok \in BOOLEAN : VectorizeSubmit(r, ok)
    \/ \E j \in DOMAIN cjobs : \E o \in AttemptOutcomes : EmbedChunk(j, o)

SpecDelete == InitDelete /\ [][NextDelete]_vars

\* Sources are retried while their process_source jobs run.  source:1 has a
\* text, source:2 has none; each may have an uploaded file and may belong to
\* notebook:1.
InitReprocess ==
    /\ embedding_model = TRUE
    /\ source = [ s \in SourceIds |->
                    IF s = "source:1" THEN SourceRow("Title 1", Some(TextB))
                    ELSE SourceRow("Title 2", None) ]
    /\ source_embedding = { }
    /\ vjobs = << >>
    /\ cjobs = << >>
    /\ lastCall = NoCall
    /\ faultsLeft = 0
    /\ editsLeft = 0
    /\ InitLibrary
    /\ items = << >>
    /\ ctxCall = NoCtxCall
    /\ lastBuild = NoBuild
    /\ note_embedding = [ n \in NoteIds |-> NoEmbedding ]
    /\ insight_embedding = [ i \in { "source_insight:1" } |-> NoEmbedding ]
    /\ rjobs = << >>
    /\ singleCall = NoSingleCall
    /\ splitCall = NoSplitCall
    /\ \E a \in { None, Some(FilePath("source:2")) } :
           asset = [ s \in SourceIds |-> IF s = "source:2" THEN a ELSE None ]
    /\ files = { }
    /\ deleteCall = NoDeleteCall
    /\ command = [ s \in SourceIds |-> None ]
    /\ pjobs = << >>
    /\ reference \in [ SourceIds -> { { }, { "notebook:1" } } ]
    /\ retryCall = NoRetryCall

NextReprocess ==
    \/ \E s \in SourceIds : \E lookup_ok, submit_ok, save_ok \in BOOLEAN :
           RetrySourceProcessing(s, lookup_ok, submit_ok, save_ok)
    \/ \E j \in DOMAIN pjobs : ProcessSourceStart(j)
    \/ \E j \in DOMAIN pjobs : \E ok \in BOOLEAN : ProcessSourceEnd(j, ok)

SpecReprocess == InitReprocess /\ [][NextReprocess]_vars

\* A caller keeps one builder and calls build() on it again and again, adding
\* items of its own in between; what each call returned is kept in lastBuild
RepeatParams ==
    { p \in BuildParams :
        /\ IsNone(p.context_config)
        /\ p.include_insights /\ p.include_notes
        /\ p.source_id # Some("source:9") }

BuildAndKeep(params) ==
    /\ Build(params)
    /\ lastBuild' = [ op |-> "build", params |-> params,
                      again |-> lastBuild.op = "build" /\ lastBuild.params = params,
                      raised |-> ctxCall'.raised, response |-> ctxCall'.response ]

InitRepeat == InitCtx

NextRepeat ==
    \/ \E id \in ItemIds : \E size \in ItemSizes : AddItem(id, size[1], size[2])
    \/ \E params \in RepeatParams : BuildAndKeep(params)

SpecRepeat == InitRepeat /\ [][NextRepeat]_vars

----------------------------------------------------------------------------
(* Claims *)

RowsByJob(j) == { row \in source_embedding : row.id[1] = j }

RunOfRow(row) == cjobs[row.id[1]].run

\* C1: in every reachable state no two chunk vector records of a source share
\* an order index, and no record written for an earlier vectorize_source run
\* survives alongside the records of a later run.
C1_NoDuplicateNoStale ==
    \A r1, r2 \in source_embedding :
        (r1 # r2 /\ r1.source = r2.source) =>
            /\ r1.order # r2.order
            /\ RunOfRow(r1) = RunOfRow(r2)

\* Runs a and b are two vectorize_source runs in succession on a source whose
\* text is unchanged: b started after a and all of a's chunk jobs had finished
\* successfully, nothing else was pending on the source then, no run started on
\* it since, and b and its chunk jobs have finished.
SameSourceBefore(b) ==
    { a \in vjobs[b].before : vjobs[a].source_id = vjobs[b].source_id }

InSuccession(a, b) ==
    /\ a \in SameSourceBefore(b)
    /\ \A c \in SameSourceBefore(b) : c = a \/ c \in vjobs[a].before
    /\ vjobs[b].quiet
    /\ vjobs[a].success = Some(TRUE)
    /\ \A j \in JobsOf(a) : cjobs[j].success = Some(TRUE)
    /\ vjobs[a].full_text = vjobs[b].full_text
    /\ \A c \in DOMAIN vjobs :
          (c # b /\ Started(c) /\ vjobs[c].source_id = vjobs[b].source_id)
              => c \in vjobs[b].before
    /\ Settled(b)

SucceededJobs(r) == { j \in JobsOf(r) : cjobs[j].success = Some(TRUE) }

\* C2 (as stated): the second of two successful runs in succession reports the
\* same total_chunks as the first, and once its chunk jobs have finished the
\* source has exactly total_chunks vector records.
C2_SameCountExactlyTotal ==
    \A a, b \in DOMAIN vjobs :
        (InSuccession(a, b) /\ vjobs[b].success = Some(TRUE)) =>
            /\ vjobs[b].total_chunks = vjobs[a].total_chunks
            /\ Cardinality(RowsOf(source_embedding, vjobs[b].source_id))
                  = vjobs[b].total_chunks

\* C2 (amended): the second of two successful runs in succession reports the
\* same total_chunks as the first, and once its chunk jobs have finished the records of the
\* source are exactly the ones written by the second run's successful chunk
\* jobs, one per job, with distinct order indices: never more than
\* total_chunks, and exactly total_chunks when every chunk was submitted and
\* every job succeeded.
C2_ReplacedNotGrown ==
    \A a, b \in DOMAIN vjobs :
        (InSuccession(a, b) /\ vjobs[b].success = Some(TRUE)) =>
            LET rows == RowsOf(source_embedding, vjobs[b].source_id)
                done == SucceededJobs(b)
            IN
            /\ vjobs[b].total_chunks = vjobs[a].total_chunks
            /\ { row.id[1] : row \in rows } = done
            /\ Cardinality(rows) = Cardinality(done)
            /\ \A r1, r2 \in rows : r1 # r2 => r1.order # r2.order
            /\ Cardinality(rows) <= vjobs[b].total_chunks
            /\ (vjobs[b].jobs_submitted = vjobs[b].total_chunks
                  /\ done = JobsOf(b))
                  => Cardinality(rows) = vjobs[b].total_chunks

C2_Witness ==
    \E a, b \in DOMAIN vjobs :
        /\ InSuccession(a, b)
        /\ vjobs[b].success = Some(TRUE)
        /\ vjobs[a].total_chunks = 2
        /\ Cardinality(RowsOf(source_embedding, vjobs[b].source_id)) = 2
        /\ \A row \in RowsOf(source_embedding, vjobs[b].source_id) : RunOfRow(row) = b

\* The failures the claims call transient
TransientKinds == { "db_conflict", "conn_error", "timeout" }

\* C3: an embed_chunk job waits for another attempt only after a write
\* conflict, a connection error or a timeout; any other failure ends the job
\* at that attempt with a structured result (success = false and an error
\* message) and without a record.
C3_RetryOnlyTransient ==
    \A j \in DOMAIN cjobs :
        LET job == cjobs[j] IN
        (job.last_error # "none" /\ job.last_error \notin TransientKinds) =>
            /\ job.status = "completed"
            /\ job.success = Some(FALSE)
            /\ ~IsNone(job.error_message)
            /\ RowsByJob(j) = { }

\* C4 (as stated): a job whose attempts failed with a transient kind ends
\* either in a successful attempt that wrote the record or, after 15
\* attempts, in a structured failure result (success = false with a message).
C4_ExhaustionReturnsFailure ==
    \A j \in DOMAIN cjobs :
        LET job == cjobs[j] IN
        (job.status # "queued" /\ job.last_error \in TransientKinds) =>
            \/ job.success = Some(TRUE) /\ RowsByJob(j) # { }
            \/ /\ job.attempts = 15
               /\ job.success = Some(FALSE)
               /\ ~IsNone(job.error_message)

C4_Safe ==
    \A j \in DOMAIN cjobs :
        LET job == cjobs[j] IN
        /\ job.attempts <= 15
        /\ job.status = "failed" =>
              /\ job.attempts = 15
              /\ IsNone(job.success)
              /\ IsNone(job.error_message)
              /\ RowsByJob(j) = { }
        /\ job.success = Some(TRUE) =>
              /\ job.status = "completed"
              /\ Cardinality(RowsByJob(j)) = 1
        /\ job.status = "queued" => RowsByJob(j) = { }

\* C4 (amended): a job is attempted at most 15 times and always terminates:
\* in a successful attempt that wrote the record, or, once the 15 attempts are
\* used up, with the last attempt's exception leaving the command (the job is
\* failed by the substrate; the command returns no result and no record is
\* written).
C4_BoundedRetryTerminates ==
    /\ []C4_Safe
    /\ <>(\A j \in DOMAIN cjobs : cjobs[j].status # "queued")

C4_Witness ==
    \E j \in DOMAIN cjobs :
        /\ cjobs[j].status = "failed"
        /\ cjobs[j].attempts = 15
        /\ cjobs[j].last_error \in TransientKinds

\* A full_text that is absent or empty
NoText(full_text) == full_text = << >> \/ full_text = << << >> >>

\* C5: a vectorize_source run on a source id that does not exist, or on a
\* source whose full text is absent or empty, ends in failure in its first
\* step, deleting no record and dispatching no job; Source.vectorize on a
\* source with no full text raises and submits no job.
C5_NoTextStep ==
    /\ \A r \in DOMAIN vjobs :
          ( /\ vjobs[r].pc = "queued"
            /\ vjobs'[r] # vjobs[r]
            /\ \/ ~source[vjobs[r].source_id].exists
               \/ NoText(source[vjobs[r].source_id].full_text) )
          => /\ vjobs'[r].pc = "done"
             /\ vjobs'[r].success = Some(FALSE)
             /\ ~IsNone(vjobs'[r].error_message)
             /\ IsNone(vjobs'[r].deleted_count)
             /\ source_embedding' = source_embedding
             /\ cjobs' = cjobs
    /\ ( /\ lastCall' # lastCall
         /\ lastCall'.op = "Source.vectorize"
         /\ NoText(lastCall'.full_text) )
       => /\ lastCall'.raised
          /\ vjobs' = vjobs

C5_NoTextNoEffect == [][C5_NoTextStep]_vars

C5_Witness ==
    /\ \E r \in DOMAIN vjobs :
          /\ vjobs[r].pc = "done"
          /\ vjobs[r].error_message = Some("no_text")
          /\ RowsOf(source_embedding, vjobs[r].source_id) # { }
    /\ lastCall.op = "Source.vectorize"
    /\ NoText(lastCall.full_text)
    /\ lastCall.raised

----------------------------------------------------------------------------
(* Claims about the context builder *)

SortedDescending(its) ==
    \A i \in 1..(Len(its) - 1) : its[i].priority >= its[i + 1].priority

Costs(its) == [ i \in 1..Len(its) |-> its[i].token_count ]

Priorities(its) == [ i \in 1..Len(its) |-> its[i].priority ]

RECURSIVE Total(_)
Total(costs) == IF costs = << >> THEN 0 ELSE Head(costs) + Total(Tail(costs))

\* The last call was truncate_to_fit with a positive ceiling on a
\* priority-sorted list whose summed cost exceeds the ceiling
OverCeiling ==
    /\ ctxCall.op = "truncate_to_fit"
    /\ Val(ctxCall.max_tokens) > 0
    /\ SortedDescending(ctxCall.before)
    /\ Total(Costs(ctxCall.before)) > Val(ctxCall.max_tokens)

\* C6: for a positive ceiling and a priority-sorted list whose summed cost
\* exceeds it, truncate_to_fit removes whole items from the end only and stops
\* as soon as the rest fits: the kept items are the longest prefix of the list
\* whose total cost is at most the ceiling.  For costs [100, 80, 50] at
\* priorities [100, 75, 50] and ceiling 150 only the priority-100 item is kept.
C6_TruncateLongestPrefix ==
    OverCeiling =>
        LET before == ctxCall.before
            ceiling == Val(ctxCall.max_tokens)
            costs == Costs(before)
        IN
        /\ Len(items) < Len(before)
        /\ items = SubSeq(before, 1, Len(items))
        /\ Total(Costs(items)) <= ceiling
        /\ Total(SubSeq(costs, 1, Len(items) + 1)) > ceiling
        /\ \A k \in 0..Len(before) :
              Total(SubSeq(costs, 1, k)) <= ceiling => k <= Len(items)
        /\ (costs = << 100, 80, 50 >> /\ Priorities(before) = << 100, 75, 50 >>
              /\ ceiling = 150)
              => items = << before[1] >>

C6_Witness ==
    /\ OverCeiling
    /\ Val(ctxCall.max_tokens) = 150
    /\ Costs(ctxCall.before) = << 100, 80, 50 >>
    /\ Priorities(ctxCall.before) = << 100, 75, 50 >>
    /\ Len(items) = 1
    /\ items[1].priority = 100

\* The last call was a build that returned, with a positive token ceiling
BuiltUnderCeiling ==
    /\ ctxCall.op = "build"
    /\ ~ctxCall.raised
    /\ ~IsNone(ctxCall.max_tokens)
    /\ Val(ctxCall.max_tokens) > 0

\* The ceiling is smaller than the cost of the single highest-priority item
TopItemOverCeiling ==
    /\ BuiltUnderCeiling
    /\ ctxCall.sorted # << >>
    /\ ctxCall.sorted[1].token_count > Val(ctxCall.max_tokens)

\* C7 (as stated): when the positive ceiling is smaller than the cost of the
\* highest-priority item, build keeps that item whole and returns
\* total_tokens greater than max_tokens.
C7_TopItemKept ==
    TopItemOverCeiling =>
        /\ items # << >>
        /\ items[1] = ctxCall.sorted[1]
        /\ ctxCall.response.total_tokens > Val(ctxCall.max_tokens)

\* C7 (amended): build with a positive ceiling never returns more than the
\* ceiling: the items returned are whole items, a prefix of the prioritized
\* list, with total_tokens at most max_tokens; when the ceiling is smaller than
\* the cost of the highest-priority item that item is dropped too and the
\* result is empty (total_items = 0, total_tokens = 0).
C7_NeverExceedsCeiling ==
    /\ BuiltUnderCeiling =>
          /\ Len(items) <= Len(ctxCall.sorted)
          /\ items = SubSeq(ctxCall.sorted, 1, Len(items))
          /\ ctxCall.response.total_tokens = Total(Costs(items))
          /\ ctxCall.response.total_tokens <= Val(ctxCall.max_tokens)
    /\ TopItemOverCeiling =>
          /\ items = << >>
          /\ ctxCall.response.total_items = 0
          /\ ctxCall.response.total_tokens = 0
          /\ ctxCall.response.sources = << >>

C7_Witness ==
    /\ TopItemOverCeiling
    /\ ctxCall.sorted[1].type = "source"
    /\ ctxCall.response.total_items = 0

\* The index of the first item of its with the given id
FirstIndex(its, id) ==
    CHOOSE i \in 1..Len(its) :
        its[i].id = id /\ \A j \in 1..(i - 1) : its[j].id # id

\* kept is before without its duplicates: no id twice, every id of before
\* present, each kept item the first one of its id, in the order of before
FirstOccurrences(kept, before) ==
    /\ \A i, j \in 1..Len(kept) : i # j => kept[i].id # kept[j].id
    /\ { kept[i].id : i \in 1..Len(kept) } = { before[i].id : i \in 1..Len(before) }
    /\ \A k \in 1..Len(kept) : kept[k] = before[FirstIndex(before, kept[k].id)]
    /\ \A k, l \in 1..Len(kept) :
          k < l => FirstIndex(before, kept[k].id) < FirstIndex(before, kept[l].id)

\* The entries for id among the content dicts of a response
EntriesFor(contents, id) == { i \in 1..Len(contents) : contents[i].id = id }

\* The last call was a build with source_id s and the id of a notebook that
\* contains s, and it returned
BuiltDirectAndViaNotebook(s) ==
    /\ ctxCall.op = "build"
    /\ ~ctxCall.raised
    /\ ctxCall.params.source_id = Some(s)
    /\ ~IsNone(ctxCall.params.notebook_id)
    /\ s \in Range(notebook[Val(ctxCall.params.notebook_id)].sources)

\* C8 (as stated): remove_duplicates keeps, for every id, the first item
\* collected and nothing else, in the order collected; so build with a
\* source_id and the notebook_id of a notebook containing that source returns
\* exactly one source entry for it.
C8_ExactlyOneSourceEntry ==
    /\ ctxCall.op = "remove_duplicates" => FirstOccurrences(items, ctxCall.before)
    /\ \A s \in SourceIds :
          BuiltDirectAndViaNotebook(s) =>
              Cardinality(EntriesFor(ctxCall.response.sources, s)) = 1

\* The build did not have to drop anything to fit a ceiling
NothingTruncated ==
    \/ IsNone(ctxCall.max_tokens)
    \/ Val(ctxCall.max_tokens) = 0
    \/ Total(Costs(ctxCall.sorted)) <= Val(ctxCall.max_tokens)

\* C8 (amended): remove_duplicates keeps, for every id, the first item
\* collected and nothing else, in the order collected; so build with a
\* source_id and the notebook_id of a notebook containing that source never
\* returns two source entries for it: the prioritized list holds exactly one
\* item for the source, the first one collected, and the result has exactly
\* one entry for it unless truncation to the token ceiling dropped that item.
C8_FirstWinsAtMostOne ==
    /\ ctxCall.op = "remove_duplicates" => FirstOccurrences(items, ctxCall.before)
    /\ \A s \in SourceIds :
          BuiltDirectAndViaNotebook(s) =>
              /\ Cardinality({ i \in 1..Len(ctxCall.sorted) : ctxCall.sorted[i].id = s }) = 1
              /\ \A i \in 1..Len(ctxCall.sorted) :
                    ctxCall.sorted[i].id = s =>
                        ctxCall.sorted[i] = ctxCall.collected[FirstIndex(ctxCall.collected, s)]
              /\ Cardinality(EntriesFor(ctxCall.response.sources, s)) <= 1
              /\ NothingTruncated =>
                    Cardinality(EntriesFor(ctxCall.response.sources, s)) = 1

C8_Witness ==
    \E s \in SourceIds :
        /\ BuiltDirectAndViaNotebook(s)
        /\ Cardinality({ i \in 1..Len(ctxCall.collected) : ctxCall.collected[i].id = s }) = 2
        /\ \E i, j \in 1..Len(ctxCall.collected) :
              /\ i < j
              /\ ctxCall.collected[i].id = s
              /\ ctxCall.collected[j].id = s
              /\ ctxCall.collected[i] # ctxCall.collected[j]
        /\ Cardinality(EntriesFor(ctxCall.response.sources, s)) = 1

\* The items of its that have priority p, in the order of its
WithPriority(its, p) == SelectSeq(its, LAMBDA item : item.priority = p)

\* The priority the default weights give an item of a type
DefaultPriority(type) ==
    CASE type = "source" -> 100
      [] type = "insight" -> 75
      [] type = "note" -> 50

\* C9: prioritize orders the items by descending priority and is stable: the
\* items of one priority keep the order in which they were collected.  Without
\* a context_config a source weighs 100, an insight 75 and a note 50.
C9_PrioritizeStableDescending ==
    /\ ctxCall.op = "prioritize" =>
          /\ Len(items) = Len(ctxCall.before)
          /\ SortedDescending(items)
          /\ \A p \in { ctxCall.before[i].priority : i \in 1..Len(ctxCall.before) } :
                WithPriority(items, p) = WithPriority(ctxCall.before, p)
    /\ (ctxCall.op = "build" /\ IsNone(ctxCall.params.context_config)) =>
          /\ \A i \in 1..Len(ctxCall.collected) :
                ctxCall.collected[i].priority = DefaultPriority(ctxCall.collected[i].type)
          /\ SortedDescending(ctxCall.sorted)
          /\ SortedDescending(items) \/ ctxCall.raised

C9_Witness ==
    /\ ctxCall.op = "prioritize"
    /\ Len(items) = 3
    /\ Priorities(ctxCall.before) = << 50, 50, 100 >>
    /\ ctxCall.before[1].id # ctxCall.before[2].id
    /\ items = << ctxCall.before[3], ctxCall.before[1], ctxCall.before[2] >>

\* The last call was build on a notebook with no inclusion map and no ceiling
BuiltNotebookByDefault ==
    /\ ctxCall.op = "build"
    /\ ~ctxCall.raised
    /\ IsNone(ctxCall.params.source_id)
    /\ ~IsNone(ctxCall.params.notebook_id)
    /\ IsNone(ctxCall.params.context_config)
    /\ IsNone(ctxCall.params.max_tokens)
    /\ ctxCall.params.include_notes

\* C10: building context for a notebook with no inclusion map and no token
\* ceiling returns one source entry per source of the notebook at short detail
\* (id, title and insights, no full text) and one note entry per note of the
\* notebook at short detail (at most the first 100 characters of its content).
C10_DefaultNotebookShortDetail ==
    BuiltNotebookByDefault =>
        LET nb == notebook[Val(ctxCall.params.notebook_id)]
            response == ctxCall.response
        IN
        /\ Len(response.sources) = Len(nb.sources)
        /\ \A s \in Range(nb.sources) :
              /\ Cardinality(EntriesFor(response.sources, s)) = 1
              /\ \A i \in EntriesFor(response.sources, s) :
                    response.sources[i].keys = { "id", "title", "insights" }
        /\ Len(response.notes) = Len(nb.notes)
        /\ \A n \in Range(nb.notes) :
              /\ Cardinality(EntriesFor(response.notes, n)) = 1
              /\ \A i \in EntriesFor(response.notes, n) :
                    \/ IsNone(response.notes[i].content)
                    \/ Val(response.notes[i].content) <= 100

\* The ids of one type a rebuild took up for processing
Collected(job, type) ==
    { job.worklist[i][2] : i \in { k \in 1..Len(job.worklist) : job.worklist[k][1] = type } }

\* A rebuild that went past the model check and the collection
Collecting(r) ==
    /\ r \in DOMAIN rjobs
    /\ rjobs[r].pc = "queued"
    /\ rjobs'[r].pc # "queued"
    /\ rjobs'[r].success # Some(FALSE)

\* The items that carry a non-empty embedding
SourcesEmbeddedNow ==
    { s \in DOMAIN source : \E row \in source_embedding :
                               row.source = s /\ row.embedding = "vec" }
NotesEmbeddedNow == { n \in DOMAIN note_embedding : note_embedding[n].value = "vec" }
InsightsEmbeddedNow == { i \in DOMAIN insight_embedding : insight_embedding[i].value = "vec" }

\* The items with embeddable content
SourcesEmbeddable == { s \in DOMAIN source : source[s].exists /\ Truthy(source[s].full_text) }
NotesEmbeddable == { n \in DOMAIN note : note[n].exists /\ HasContent(n) }

\* C11: in mode "existing" a rebuild collects exactly the items that already
\* have a non-empty embedding (a source: one with at least one chunk record
\* whose embedding is non-empty) and never one without; in mode "all" it
\* collects every item with embeddable content.  Of three sources with text,
\* one of them embedded, "existing" collects one and "all" collects three.
C11_CollectByMode ==
    [][ \A r \in DOMAIN rjobs : Collecting(r) =>
          LET job == rjobs'[r] IN
          /\ job.include_sources /\ job.mode = "existing" =>
                /\ Collected(job, "source") = SourcesEmbeddedNow
                /\ Cardinality(Collected(job, "source")) = 1
          /\ job.include_notes /\ job.mode = "existing" =>
                Collected(job, "note") = NotesEmbeddedNow
          /\ job.include_insights /\ job.mode = "existing" =>
                Collected(job, "insight") = InsightsEmbeddedNow
          /\ job.include_sources /\ job.mode = "all" =>
                /\ SourcesEmbeddable \subseteq Collected(job, "source")
                /\ Cardinality(Collected(job, "source")) = 3
          /\ job.include_notes /\ job.mode = "all" =>
                NotesEmbeddable \subseteq Collected(job, "note")
          /\ job.include_insights /\ job.mode = "all" =>
                { source_insight[i].id : i \in 1..Len(source_insight) }
                    \subseteq Collected(job, "insight")
          /\ ~job.include_sources => Collected(job, "source") = { }
          /\ ~job.include_notes => Collected(job, "note") = { }
          /\ ~job.include_insights => Collected(job, "insight") = { }
          /\ Len(job.worklist) = Cardinality(Collected(job, "source"))
                + Cardinality(Collected(job, "note")) + Cardinality(Collected(job, "insight"))
      ]_vars

\* A rebuild of the existing embeddings took up source:1 alone of the three
\* sources with text
C11_Witness ==
    \E r \in DOMAIN rjobs :
        /\ rjobs[r].mode = "existing"
        /\ rjobs[r].include_sources
        /\ rjobs[r].pc = "running"
        /\ Collected(rjobs[r], "source") = { "source:1" }
        /\ Cardinality(SourcesEmbeddable) = 3

\* A rebuild that entered its loops (it passed the model check and collected
\* at least one item)
InLoops(job) == job.pc # "queued" /\ Len(job.worklist) > 0

\* Position of an item type in the order of the three loops
LoopRank(type) == CASE type = "source" -> 1 [] type = "note" -> 2 [] type = "insight" -> 3

Failures(job) == { i \in 1..Len(job.outcomes) : job.outcomes[i] # "ok" }

\* C12: a failure on one item (not found, embedding call or store write
\* failing) adds one to failed_items and does not abort the rebuild: every
\* item is attempted exactly once, sources then notes then insights, and the
\* run ends with success = true.
C12_FailureCountedRunContinues ==
    \A r \in DOMAIN rjobs :
        LET job == rjobs[r] IN
        InLoops(job) =>
            /\ job.success # Some(FALSE)
            /\ Len(job.outcomes) = job.idx
            /\ job.failed_items = Cardinality(Failures(job))
            /\ job.pc = "running" => job.idx < Len(job.worklist)
            /\ job.pc = "done" => /\ job.idx = Len(job.worklist)
                                  /\ job.success = Some(TRUE)
            /\ \A i, k \in 1..Len(job.worklist) :
                  /\ i < k => LoopRank(job.worklist[i][1]) <= LoopRank(job.worklist[k][1])
                  /\ i # k => job.worklist[i] # job.worklist[k]

\* A finished rebuild whose first item failed and whose later items, of all
\* three types, went through
C12_Witness ==
    \E r \in DOMAIN rjobs :
        LET job == rjobs[r] IN
        /\ job.pc = "done"
        /\ job.success = Some(TRUE)
        /\ job.failed_items = 1
        /\ Len(job.outcomes) = 3
        /\ job.outcomes[1] # "ok"
        /\ job.outcomes[2] = "ok"
        /\ job.outcomes[3] = "ok"
        /\ job.worklist[1][1] = "source"
        /\ job.worklist[3][1] = "insight"

\* The passes of one item type that went through
Processed(job, type) ==
    { i \in 1..Len(job.outcomes) : job.worklist[i][1] = type /\ job.outcomes[i] = "ok" }

\* C13: a rebuild that returns success reports processed_items as the sum of
\* the per-type counts of sources, notes and insights processed, and
\* processed_items + failed_items = total_items.
C13_CountsAddUp ==
    \A r \in DOMAIN rjobs :
        LET job == rjobs[r] IN
        job.pc = "done" /\ job.success = Some(TRUE) =>
            /\ job.processed_items
                  = job.sources_processed + job.notes_processed + job.insights_processed
            /\ job.processed_items + job.failed_items = job.total_items
            /\ job.total_items = Len(job.worklist)
            /\ job.sources_processed = Cardinality(Processed(job, "source"))
            /\ job.notes_processed = Cardinality(Processed(job, "note"))
            /\ job.insights_processed = Cardinality(Processed(job, "insight"))

\* A successful rebuild of everything in which one of the seven items failed
C13_Witness ==
    \E r \in DOMAIN rjobs :
        LET job == rjobs[r] IN
        /\ job.pc = "done"
        /\ job.success = Some(TRUE)
        /\ job.total_items = 7
        /\ job.failed_items = 1
        /\ job.processed_items = 6
        /\ job.sources_processed = 3

\* A rebuild returns its success result
RebuildReturns(r) ==
    /\ r \in DOMAIN rjobs
    /\ rjobs[r].pc = "running"
    /\ rjobs'[r].pc = "done"
    /\ rjobs'[r].success = Some(TRUE)

\* The chunk records of a source are those the given vectorize_source run
\* produced, one per chunk, none older
ReplacedBy(table, jobs, run, source_id) ==
    /\ RowsOf(table, source_id) # { }
    /\ \A row \in RowsOf(table, source_id) :
          /\ row.id[1] \in DOMAIN jobs
          /\ jobs[row.id[1]].run = run

\* C14: the rebuild re-embeds each collected item within the job: at the
\* moment rebuild_embeddings returns, every item counted in
\* sources_processed, notes_processed or insights_processed has its new
\* embedding persisted in the store (a source: its old chunk records
\* replaced by the new ones).
C14_ProcessedMeansPersisted ==
    [][ \A r \in DOMAIN rjobs : RebuildReturns(r) =>
          LET job == rjobs'[r] IN
          \A i \in 1..Len(job.outcomes) : job.outcomes[i] = "ok" =>
              LET type == job.worklist[i][1]
                  id == job.worklist[i][2]
              IN
              /\ type = "source" =>
                    ReplacedBy(source_embedding', cjobs', job.runs[i], id)
              /\ type = "note" =>
                    note_embedding'[id] = Embedding("vec", "rebuild_embeddings")
              /\ type = "insight" =>
                    insight_embedding'[id] = Embedding("vec", "rebuild_embeddings")
      ]_vars

\* Operations that return in this step
VectorizeReturns(r) == vjobs[r].pc # "done" /\ vjobs'[r].pc = "done"
ChunkReturns(j) == cjobs[j].status = "queued" /\ cjobs'[j].status # "queued"
RebuildEnds(r) == rjobs[r].pc # "done" /\ rjobs'[r].pc = "done"
SingleReturns == singleCall' # singleCall

\* C15: with no embedding provider configured every operation of the core
\* (vectorize_source, embed_chunk, rebuild_embeddings, embed_single_item)
\* fails as a precondition check: it reports failure and has neither deleted
\* nor written a chunk record or an embedding field, nor dispatched a job.
C15_NoProviderNoEffect ==
    [][ ~embedding_model =>
          /\ source_embedding' = source_embedding
          /\ note_embedding' = note_embedding
          /\ insight_embedding' = insight_embedding
          /\ Len(cjobs') = Len(cjobs)
          /\ (SingleReturns \/ rjobs' # rjobs) => Len(vjobs') = Len(vjobs)
          /\ \A r \in DOMAIN vjobs : VectorizeReturns(r) => vjobs'[r].success = Some(FALSE)
          /\ \A j \in DOMAIN cjobs : ChunkReturns(j) => cjobs'[j].success = Some(FALSE)
          /\ \A r \in DOMAIN rjobs : RebuildEnds(r) => rjobs'[r].success = Some(FALSE)
          /\ SingleReturns => singleCall'.success = Some(FALSE)
      ]_vars

\* A structured outcome: success is set, and error_message exactly on failure
Structured(result) ==
    /\ ~IsNone(result.success)
    /\ result.success = Some(FALSE) <=> ~IsNone(result.error_message)

\* The last attempt of an embed_chunk job let its exception leave the command
Escaped(job) == job.attempts > 0 /\ job.last_error # "none" /\ IsNone(job.success)

\* The three orchestrating operations return a structured outcome whenever
\* they end
OrchestratorsReturnOutcome ==
    /\ \A r \in DOMAIN vjobs : vjobs[r].pc = "done" => Structured(vjobs[r])
    /\ \A r \in DOMAIN rjobs : rjobs[r].pc = "done" => Structured(rjobs[r])
    /\ singleCall.op # "none" => Structured(singleCall)

\* C16 as stated: every job-shaped operation (embed_single_item, embed_chunk,
\* vectorize_source, rebuild_embeddings) ends every execution by returning a
\* structured outcome with success and error_message; no execution lets an
\* exception leave the command.
C16_NoExceptionEscapes ==
    /\ OrchestratorsReturnOutcome
    /\ \A j \in DOMAIN cjobs :
          /\ ~Escaped(cjobs[j])
          /\ cjobs[j].status # "queued" => Structured(cjobs[j])

\* C16 amended: embed_single_item, vectorize_source and rebuild_embeddings end
\* every execution by returning a structured outcome; an embed_chunk
\* execution returns one on success and on every failure other than a
\* RuntimeError, ConnectionError or TimeoutError, which it re-raises.
C16_OnlyRetriedKindsEscape ==
    /\ OrchestratorsReturnOutcome
    /\ \A j \in DOMAIN cjobs :
          LET job == cjobs[j] IN
          /\ Escaped(job) =>
                AttemptRaises(job.last_error)
                    \in { "RuntimeError", "ConnectionError", "TimeoutError" }
          /\ job.status = "completed" => Structured(job)
          /\ job.status = "failed" => Escaped(job)
          /\ job.success = Some(FALSE) =>
                AttemptRaises(job.last_error)
                    \notin { "none", "RuntimeError", "ConnectionError", "TimeoutError" }

\* embed_single_item returned a structured failure and an embed_chunk attempt
\* let its exception out
C16_Witness ==
    /\ singleCall.op = "embed_single_item"
    /\ singleCall.success = Some(FALSE)
    /\ \E j \in DOMAIN cjobs : Escaped(cjobs[j])
    /\ \E r \in DOMAIN vjobs : vjobs[r].pc = "done"

\* How far an execution of vectorize_source / rebuild_embeddings has come
PcRank(pc) ==
    CASE pc = "queued" -> 0
      [] pc = "loaded" -> 1
      [] pc = "dispatch" -> 2
      [] pc = "running" -> 2
      [] pc = "done" -> 3

\* C17: a submitted vectorize_source job and a submitted rebuild_embeddings
\* job are each executed at most once: whatever fails during the
\* orchestration, the job is not executed again, so one submission never
\* runs its delete step or its dispatch loop twice.
C17_OrchestratorsRunOnce ==
    [][ /\ \A r \in DOMAIN vjobs :
              /\ PcRank(vjobs'[r].pc) >= PcRank(vjobs[r].pc)
              /\ vjobs[r].pc = "done" => vjobs'[r] = vjobs[r]
              /\ (vjobs[r].pc = "loaded" /\ vjobs'[r].pc # "loaded")
                    => IsNone(vjobs[r].deleted_count)
              /\ vjobs'[r].idx >= vjobs[r].idx
              /\ \A j1, j2 \in DOMAIN cjobs' :
                    (cjobs'[j1].run = r /\ cjobs'[j2].run = r
                       /\ cjobs'[j1].chunk_index = cjobs'[j2].chunk_index) => j1 = j2
        /\ \A r \in DOMAIN rjobs :
              /\ PcRank(rjobs'[r].pc) >= PcRank(rjobs[r].pc)
              /\ rjobs[r].pc = "done" => rjobs'[r] = rjobs[r]
              /\ rjobs'[r].idx >= rjobs[r].idx
              /\ Len(rjobs'[r].outcomes) <= Len(rjobs'[r].worklist)
              /\ \A i, k \in 1..Len(rjobs'[r].runs) :
                    (i # k /\ rjobs'[r].runs[i] # 0) => rjobs'[r].runs[i] # rjobs'[r].runs[k]
      ]_vars

\* Both orchestrators failed, vectorize_source in its delete step, and neither
\* was executed again
C17_Witness ==
    /\ \E r \in DOMAIN vjobs :
          /\ vjobs[r].pc = "done"
          /\ vjobs[r].error_message = Some("delete_error")
    /\ \E r \in DOMAIN rjobs :
          /\ rjobs[r].pc = "done"
          /\ rjobs[r].success = Some(FALSE)

\* The chunk indexes of run r for which an embed_chunk job was submitted
SubmittedChunks(r) == { cjobs[j].chunk_index : j \in JobsOf(r) }

\* The chunk indexes the loop of run r went over without a job resulting
SkippedChunks(r) == { i \in 0..(vjobs[r].idx - 1) : i \notin SubmittedChunks(r) }

\* The submit loop of run r went over a chunk in this step
SubmitPass(r) == vjobs[r].pc = "dispatch" /\ vjobs'[r].idx = vjobs[r].idx + 1

\* A run of vectorize_source that reached its submit loop
Dispatching(r) == vjobs[r].pc = "dispatch" \/ (vjobs[r].pc = "done" /\ vjobs[r].idx > 0)

\* The state of the submit loop of every run: nothing ended it early, and the
\* result counts what was submitted
SubmitLoopState ==
    \A r \in DOMAIN vjobs : Dispatching(r) =>
        LET run == vjobs[r]
            n == Len(split_text(Val(run.full_text)))
        IN
        /\ run.success # Some(FALSE)
        /\ run.total_chunks = n
        /\ run.jobs_submitted = Cardinality(JobsOf(r))
        /\ run.jobs_submitted + Cardinality(SkippedChunks(r)) = run.idx
        /\ run.pc = "dispatch" => run.idx < n
        /\ run.pc = "done" =>
              /\ run.success = Some(TRUE)
              /\ run.idx = n
              /\ 0 <= run.jobs_submitted /\ run.jobs_submitted <= run.total_chunks
              /\ run.jobs_submitted < run.total_chunks <=> SkippedChunks(r) # { }
              /\ \A i \in 0..(n - 1) : i \in SubmittedChunks(r) \/ i \in SkippedChunks(r)

SplitReturned == ~IsNone(splitCall.chunks)

\* A text that is one run of content fitting one chunk, such as "short"
FitsOneChunk(txt) == Len(txt) = 1 /\ txt[1] # "ws"

Deleting(s) ==
    /\ source[s].exists
    /\ deleteCall'.op = "Source.delete"
    /\ deleteCall'.source_id = s
    /\ vjobs' = vjobs /\ cjobs' = cjobs
    /\ (source' # source \/ faultsLeft' < faultsLeft)

\* The uploaded file of source s is on disk
HasFile(s) == ~IsNone(asset[s]) /\ Val(asset[s]) \in files

\* Nothing but the file removal failed in this step
OnlyFileErrors == faultsLeft - faultsLeft' = IF deleteCall'.file_error THEN 1 ELSE 0

\* C21: Source.delete removes the on-disk file named by the source's asset
\* when that file exists, and always goes on to delete the database record:
\* a source with no asset, a file path that no longer exists, or a failing
\* file removal does not prevent the record deletion or make delete fail.
C21_DeleteRemovesFileAndRecord ==
    [][ \A s \in SourceIds : (Deleting(s) /\ OnlyFileErrors) =>
          /\ ~deleteCall'.raised
          /\ ~source'[s].exists
          /\ (HasFile(s) /\ ~deleteCall'.file_error) => Val(asset[s]) \notin files'
          /\ (~HasFile(s) \/ deleteCall'.file_error) => files' = files
      ]_vars

\* A source was deleted although the removal of its file failed
C21_Witness ==
    /\ deleteCall.op = "Source.delete"
    /\ deleteCall.file_error
    /\ ~deleteCall.raised
    /\ ~source[deleteCall.source_id].exists
    /\ Val(asset[deleteCall.source_id]) \in files

\* C26: chunk vector records are deleted wholesale when their source is
\* removed: in every reachable state after a source has been deleted no chunk
\* vector record references it, also when embed_chunk jobs for that source
\* were still queued or retrying at the time of the deletion.
C26_NoRecordOfDeletedSource ==
    \A s \in SourceIds : ~source[s].exists => RowsOf(source_embedding, s) = { }

\* The job the source is linked to is queued or running
ProcessingActive(s) ==
    /\ source[s].exists
    /\ ~IsNone(command[s])
    /\ pjobs[Val(command[s])].status \in ActiveStatuses

\* A retry request for s that could read the status of the linked job
RetryRequest(s) ==
    \E submit_ok, save_ok \in BOOLEAN : RetrySourceProcessing(s, TRUE, submit_ok, save_ok)

\* C22: a retry request for a source whose linked job is queued or running
\* is answered 400 "Source is already processing", submits no process_source
\* job and leaves the source's command link as it was.
C22_RetryRefusedWhileActive ==
    [][ \A s \in SourceIds :
          ProcessingActive(s) /\ RetryRequest(s) =>
              /\ retryCall'.status_code = 400
              /\ retryCall'.detail = "Source is already processing"
              /\ pjobs' = pjobs
              /\ command' = command ]_vars

\* The embed_chunk jobs a step submits
NewJobs == { j \in DOMAIN cjobs' : j > Len(cjobs) }

\* Job j, submitted by this step, follows the order of its run: the run had
\* loaded the text, completed its DELETE and split the text before, and the
\* job carries a chunk index of the split, the text at that index, and an
\* index no earlier job of the run carries
SubmittedInOrder(j) ==
    LET job == cjobs'[j]
        run == vjobs[job.run]
    IN
    /\ job.run \in DOMAIN vjobs
    /\ run.pc = "dispatch"
    /\ ~IsNone(run.full_text)
    /\ ~IsNone(run.deleted_count)
    /\ run.chunks = split_text(Val(run.full_text))
    /\ job.source_id = run.source_id
    /\ job.chunk_index \in 0..(Len(run.chunks) - 1)
    /\ job.chunk_text = run.chunks[job.chunk_index + 1]
    /\ \A i \in JobsOf(job.run) : cjobs[i].chunk_index < job.chunk_index

\* C23: within one vectorize_source run no embed_chunk job is submitted
\* before the run's DELETE has completed and its text is split; every job
\* carries the index of its chunk in split order and that chunk's text, and
\* no index of 0..n-1 is submitted twice.
C23_DispatchAfterDeleteInSplitOrder ==
    [][ /\ \A j \in DOMAIN cjobs : cjobs'[j].chunk_index = cjobs[j].chunk_index
                                   /\ cjobs'[j].chunk_text = cjobs[j].chunk_text
                                   /\ cjobs'[j].run = cjobs[j].run
        /\ \A j \in NewJobs : SubmittedInOrder(j) ]_vars

\* A run dispatched both chunks of a two-chunk text
C23_Witness ==
    \E r \in DOMAIN vjobs :
        /\ vjobs[r].pc = "done"
        /\ Len(vjobs[r].chunks) = 2
        /\ { cjobs[j].chunk_index : j \in JobsOf(r) } = { 0, 1 }

\* What a reader of source s observes: the order indices of its records
OrdersOf(s) == { row.order : row \in RowsOf(source_embedding, s) }

\* No embed_chunk job of run r is waiting for an attempt
AllJobsEnded(r) == \A j \in JobsOf(r) : cjobs[j].status # "queued"

\* C24 (as stated): once the k chunk jobs a run submitted have all ended, and
\* no other vectorization of the source was started, the source has exactly k
\* records whose order indices are those of the submitted jobs.
C24_AllSubmittedEmbedded ==
    \A r \in DOMAIN vjobs :
        (vjobs[r].pc = "done" /\ AllJobsEnded(r)) =>
            /\ Cardinality(RowsOf(source_embedding, vjobs[r].source_id))
                  = vjobs[r].jobs_submitted
            /\ OrdersOf(vjobs[r].source_id)
                  = { cjobs[j].chunk_index : j \in JobsOf(r) }

\* Until the jobs have ended a reader observes between 0 and k records, each
\* written by a job of the run under that job's index
C24_Partial ==
    \A r \in DOMAIN vjobs :
        LET rows == RowsOf(source_embedding, vjobs[r].source_id) IN
        /\ Cardinality(rows) \in 0..vjobs[r].jobs_submitted
        /\ \A row \in rows :
              /\ row.id[1] \in JobsOf(r)
              /\ row.order = cjobs[row.id[1]].chunk_index

\* The records of the source are those of the jobs that succeeded, one each
C24_Settled ==
    \A r \in DOMAIN vjobs :
        LET rows == RowsOf(source_embedding, vjobs[r].source_id) IN
        /\ AllJobsEnded(r)
        /\ { row.id[1] : row \in rows } = SucceededJobs(r)
        /\ Cardinality(rows) = Cardinality(SucceededJobs(r))
        /\ OrdersOf(vjobs[r].source_id)
              = { cjobs[j].chunk_index : j \in SucceededJobs(r) }

\* C24 (amended): if a run submitted k chunk jobs, no other vectorization of
\* the source is started and the worker pool is fair, then eventually every
\* job has ended and from then on the source has exactly one record for each
\* job that succeeded, under that job's order index: k records when all k jobs
\* succeeded, fewer when a job ended in failure.  Before that a reader
\* observes any count from 0 to k.
C24_ConvergesToSucceededJobs ==
    /\ []C24_Partial
    /\ <>[]C24_Settled

\* Both jobs ended, one of them after a failed attempt, and both records are there
C24_Witness ==
    /\ AllJobsEnded(1)
    /\ \E j \in JobsOf(1) : cjobs[j].attempts > 1
    /\ OrdersOf("source:1") = { 0, 1 }

\* The failures raised by the embedding call, before the CREATE is issued
EmbeddingCallFailures == { "conn_error", "timeout", "embed_error" }

\* The effect of one attempt of job j with the given outcome on the records
AttemptEffect(j, outcome) ==
    LET job == cjobs[j]
        added == source_embedding' \ source_embedding
    IN
    /\ source_embedding \subseteq source_embedding'
    /\ IF cjobs'[j].success = Some(TRUE)
       THEN /\ Cardinality(added) = 1
            /\ \A row \in added :
                  /\ row.source = job.source_id
                  /\ row.order = job.chunk_index
                  /\ row.content = job.chunk_text
       ELSE added = { }
    /\ outcome \in EmbeddingCallFailures => added = { }
    /\ Cardinality({ row \in source_embedding' : row.id[1] = j }) <= 1

\* C25: an embed_chunk attempt that returns success has inserted exactly one
\* record with source = source_id, order = chunk_index and content =
\* chunk_text; an attempt that fails at the embedding call inserts nothing;
\* no attempt changes or removes a record that exists, and a job has at most
\* one record over all its attempts.
C25_AttemptInsertsAtMostOne ==
    [][ \A j \in DOMAIN cjobs : \A o \in AttemptOutcomes :
            EmbedChunk(j, o) => AttemptEffect(j, o) ]_vars

\* A job failed at the embedding call, was attempted again and wrote its record
C25_Witness ==
    \E j \in DOMAIN cjobs :
        /\ cjobs[j].success = Some(TRUE)
        /\ cjobs[j].attempts > 1
        /\ cjobs[j].last_error \in EmbeddingCallFailures
        /\ Cardinality(RowsByJob(j)) = 1

\* The source and note ids a build call asks for: the source_id argument and,
\* for a notebook, the entries of the inclusion maps that are not "not in"
\* (the sources and notes of the notebook when a map is empty)
RequestedIds(params) ==
    LET config == IF IsNone(params.context_config)
                  THEN ContextConfig(<< >>, << >>, None)
                  ELSE Val(params.context_config)
        listed(map) == { e[1] : e \in { x \in Range(map) : x[2] # "not in" } }
        nb == params.notebook_id
    IN (IF IsNone(params.source_id) THEN { } ELSE { Val(params.source_id) })
       \cup (IF IsNone(nb) THEN { }
             ELSE IF config.sources # << >> THEN listed(config.sources)
             ELSE Range(notebook[Val(nb)].sources))
       \cup (IF IsNone(nb) \/ ~params.include_notes THEN { }
             ELSE IF config.notes # << >> THEN listed(config.notes)
             ELSE Range(notebook[Val(nb)].notes))

Resolvable(id) == SourceFound(id) \/ NoteFound(id)

\* The ids of the source and note items of a list
SourceAndNoteIds(its) ==
    { its[i].id : i \in { k \in 1..Len(its) : its[k].type \in { "source", "note" } } }

\* The ids of the source and note entries of a response
ResponseIds(response) ==
    { c.id : c \in Range(response.sources) \cup Range(response.notes) }

\* A build call, on no notebook or one that exists, that asks for a source or
\* note id that is not in the store
AsksForMissingItem ==
    /\ ctxCall.op = "build"
    /\ IsNone(ctxCall.params.notebook_id)
          \/ NotebookFound(Val(ctxCall.params.notebook_id))
    /\ \E id \in RequestedIds(ctxCall.params) : ~Resolvable(id)

C28_ChunksCreatedIsChunkCount ==
    (/\ singleCall.op = "embed_single_item"
     /\ singleCall.item_type = "source"
     /\ singleCall.success = Some(TRUE)) =>
        singleCall.chunks_created
            = Len(split_text(Val(source[singleCall.item_id].full_text)))

\* Run r has reported failure
ReportsFailure(r) == vjobs[r].pc = "done" /\ vjobs[r].success = Some(FALSE)

\* The records run r removed from the store
RemovedBy(r) == IF IsNone(vjobs[r].deleted_count) THEN 0 ELSE Val(vjobs[r].deleted_count)

\* C29 (as stated): a vectorize_source run that reports failure has left the
\* store as it was: it removed no chunk record of the source and dispatched
\* no embed_chunk job, on every failure path.
C29_FailureLeavesStoreUnchanged ==
    \A r \in DOMAIN vjobs :
        ReportsFailure(r) => RemovedBy(r) = 0 /\ JobsOf(r) = { }

\* C29 (amended): a vectorize_source run that reports failure has dispatched
\* no embed_chunk job and reports total_chunks = 0 and jobs_submitted = 0; it
\* has removed no record when it failed at loading the source or in the
\* DELETE itself, and the one failure that comes after the DELETE, a text
\* that splits into zero chunks, leaves the source without its old records.
C29_FailureDispatchesNothing ==
    \A r \in DOMAIN vjobs :
        ReportsFailure(r) =>
            /\ JobsOf(r) = { }
            /\ vjobs[r].total_chunks = 0
            /\ vjobs[r].jobs_submitted = 0
            /\ vjobs[r].error_message # Some("no_chunks") => RemovedBy(r) = 0
            /\ vjobs[r].error_message = Some("no_chunks") =>
                  /\ ~IsNone(vjobs[r].deleted_count)
                  /\ split_text(Val(vjobs[r].full_text)) = << >>

\* A run failed on a text of whitespace after removing the records of the source
C29_Witness ==
    \E r \in DOMAIN vjobs :
        /\ ReportsFailure(r)
        /\ vjobs[r].error_message = Some("no_chunks")
        /\ RemovedBy(r) > 0

\* This step is a build call with the arguments of the build call before it
BuildsAgain ==
    /\ lastBuild.op = "build"
    /\ lastBuild'.op = "build"
    /\ lastBuild'.again
    /\ ctxCall'.op = "build"

\* C30: a build() call on a builder whose previous build() had the same
\* arguments, over an unchanged store, returns the same sources, notes,
\* insights, total_tokens and total_items (or raises again); the items the
\* builder held before the call, whether collected by the earlier build or
\* added since, are not in the result.
C30_BuildRepeatable ==
    [][ BuildsAgain =>
          /\ lastBuild'.raised = lastBuild.raised
          /\ lastBuild'.response = lastBuild.response
          /\ ~lastBuild'.raised => Len(items') = lastBuild'.response.total_items ]_vars

\* A second build with the same arguments returned a result with items in it
C30_Witness ==
    /\ lastBuild.again
    /\ ~lastBuild.raised
    /\ lastBuild.response.total_items > 0
    /\ ctxCall.op = "build"

====
